---- MODULE Spec2Model ----
(***************************************************************************)
(* InsightX: the multi-provider dispatch engine (multiLlmService), the     *)
(* connection tester (providerTestController), the chat controller         *)
(* (sendMultiLLMMessage), the single-backend services (role-play variant,  *)
(* geminiService) and the response judge (judgeController / judgeService), *)
(* as state machines.                                                      *)
(***************************************************************************)
EXTENDS Integers, Sequences, FiniteSets, TLC

VARIABLES
    apiKey,      \* PROVIDERS[p].apiKey, read once from process.env
    op,          \* the dispatch operation in progress
    requested,   \* the provider list handed to the operation
    calls,       \* the generateResponseFromProvider promises of the operation
    order,       \* indices of calls, in the order their backend replied
    result,      \* what the operation returned (or threw)
    contacted,   \* provider ids the operation in progress sent an HTTP request for
    opNet,       \* HTTP requests sent by the operation in progress
    tIdx,        \* testProviderConnections: position in Object.entries(PROVIDERS)
    orphans,     \* probe calls of the operation still in flight after losing their race
    hfConfigured, \* HF_API_TOKEN and JUDGE_MODEL_ID are set
    jpc,         \* judge request: idle, primary, fallback (awaiting the call), done
    jreq,        \* judge request: who called, with which question and responses
    jprompt,     \* judgeResponses: the local prompt
    jlog,        \* judge request: the invocations made of the judge model, in order
    jresult,     \* what judgeService.judgeResponses settled with
    jentered,    \* judgeService.judgeResponses was called
    http,        \* the HTTP status judgeController answered with (0: none)
    chat         \* sendMultiLLMMessage: the request in progress and what it emitted

dvars == <<apiKey, op, requested, calls, order, result, contacted, opNet, tIdx, orphans>>

jvars == <<hfConfigured, jpc, jreq, jprompt, jlog, jresult, jentered, http>>

vars == <<dvars, jvars, chat>>

-----------------------------------------------------------------------------
(* Bounds *)

\* longest arbitrary provider list handed to generateMultiProviderResponses
MaxReq == 2

\* longest responses array handed to the judge
MaxResp == 5

-----------------------------------------------------------------------------
(* Provider registry *)

ProviderOrder == <<"gemini", "openai", "claude", "perplexity">>

Providers == {ProviderOrder[i] : i \in 1..Len(ProviderOrder)}

ProviderIds == Providers \cup {"mistral"}

ProviderName(p) ==
    CASE p = "gemini" -> "Google Gemini"
      [] p = "openai" -> "OpenAI GPT"
      [] p = "claude" -> "Anthropic Claude"
      [] p = "perplexity" -> "Perplexity AI"
      [] OTHER -> "undefined"

DefaultModel(p) ==
    CASE p = "gemini" -> "gemini-pro"
      [] p = "openai" -> "gpt-3.5-turbo"
      [] p = "claude" -> "claude-3-sonnet-20240229"
      [] p = "perplexity" -> "llama-3.1-sonar-large-128k-online"
      [] OTHER -> "undefined"

\* PROVIDERS[p].models
Models(p) ==
    CASE p = "gemini" -> <<"gemini-pro", "gemini-pro-vision">>
      [] p = "openai" -> <<"gpt-3.5-turbo", "gpt-3.5-turbo-16k">>
      [] p = "claude" -> <<"claude-3-opus-20240229", "claude-3-sonnet-20240229",
                           "claude-3-haiku-20240307">>
      [] p = "perplexity" -> <<"llama-3.1-sonar-large-128k-online",
                               "llama-3.1-sonar-small-128k-online">>
      [] OTHER -> <<>>

\* DEFAULT_SETTINGS (temperature in tenths)
DEFAULT_SETTINGS == [temperature |-> 7, maxTokens |-> 1000, timeout |-> 30000]

\* settings a caller passes: a chat's settings, without and with a timeout of its own
SettingsGiven == {[maxTokens |-> 500], [maxTokens |-> 500, timeout |-> 5000]}

\* the settings of the connection tester's probe
ProbeSettings == [maxTokens |-> 10, temperature |-> 0]

\* what process.env can hold for a key: nothing, the template's placeholder, a key
KeyKinds == {"unset", "placeholder", "valid"}

\* JS truthiness of the values validateApiKey yields
Truthy(v) == v = "true"

\* mutant: the template's placeholder passes for a key
validateApiKeyAnyValue(p) ==
    IF p \notin Providers THEN "undefined"
    ELSE IF apiKey[p] = "unset" THEN "undefined"
    ELSE "true"

\* config && config.apiKey && config.apiKey !== 'your-api-key-here'
validateApiKey(p) ==
    IF p \notin Providers THEN "undefined"
    ELSE IF apiKey[p] = "unset" THEN "undefined"
    ELSE IF apiKey[p] = "placeholder" THEN "false"
    ELSE "true"

\* providers.filter(provider => validateApiKey(provider))
RECURSIVE FilterValid(_)
FilterValid(ps) ==
    IF ps = <<>> THEN <<>>
    ELSE IF Truthy(validateApiKey(Head(ps)))
         THEN <<Head(ps)>> \o FilterValid(Tail(ps))
         ELSE FilterValid(Tail(ps))

getAvailableProviders == FilterValid(ProviderOrder)

-----------------------------------------------------------------------------
(* Text: a JavaScript string is a sequence of one-character strings *)

LowerAlpha ==
    <<"a", "b", "c", "d", "e", "f", "g", "h", "i", "j", "k", "l", "m", "n", "o", "p", "q",
    "r", "s", "t", "u", "v", "w", "x", "y", "z">>

\* String.prototype.toUpperCase, character by character
Upper(c) ==
    IF \E i \in 1..Len(LowerAlpha) : LowerAlpha[i] = c
    THEN <<"A", "B", "C", "D", "E", "F", "G", "H", "I", "J", "K", "L", "M", "N", "O", "P", "Q",
           "R", "S", "T", "U", "V", "W", "X", "Y",
           "Z">>[CHOOSE i \in 1..Len(LowerAlpha) : LowerAlpha[i] = c]
    ELSE c

toUpperCase(s) == [i \in 1..Len(s) |-> Upper(s[i])]

IsSpace(c) == c \in {" ", "\t", "\r", "\n"}

RECURSIVE TrimStart(_)
TrimStart(s) == IF s /= <<>> /\ IsSpace(Head(s)) THEN TrimStart(Tail(s)) ELSE s

RECURSIVE TrimEnd(_)
TrimEnd(s) ==
    IF s /= <<>> /\ IsSpace(s[Len(s)]) THEN TrimEnd(SubSeq(s, 1, Len(s) - 1)) ELSE s

\* String.prototype.trim
trim(s) == TrimEnd(TrimStart(s))

-----------------------------------------------------------------------------
(* Backend replies and their normalisation *)

\* the text a 2xx reply carries where the generator looks for it: a completion
\* (with trailing white space), white space only, nothing (empty or missing)
ContentOK == <<"O", "K", " ">>

ContentNone == <<>>

ReplyContents == {ContentOK, <<" ">>, ContentNone}

\* A reply of the backend to one axios.post: an HTTP response (status > 0) or a
\* transport fault (status = 0, axios error code).
Replies ==
    {[status |-> 200, code |-> "", content |-> c] : c \in ReplyContents}
    \cup {[status |-> s, code |-> "ERR_BAD_RESPONSE", content |-> <<>>] : s \in {400, 401, 403, 404, 429, 500, 501, 502, 503, 504}}
    \cup {[status |-> 0, code |-> c, content |-> <<>>] :
            c \in {"ECONNABORTED", "ENOTFOUND", "ECONNREFUSED"}}

\* the replies drawn for the calls of one fan-out: a success, an HTTP fault, and
\* the call's own timeout expiring
FanoutReplies ==
    {r \in Replies : r.content = ContentOK \/ r.status = 500 \/ r.code = "ECONNABORTED"}

Pending == [status |-> -1, code |-> "pending", content |-> <<>>]

\* "absent": the object has no such field
Absent == <<"absent">>

Success(p, content) ==
    [provider |-> p, success |-> TRUE, content |-> content, model |-> DefaultModel(p),
     errorType |-> "absent", error |-> Absent]

Failure(p, t, msg) ==
    [provider |-> p, success |-> FALSE, content |-> Absent, model |-> "absent",
     errorType |-> t, error |-> msg]

\* an Error as the catch block sees it: its message, error.response.status
\* (0: no response) and error.code
Err(msg, status, code) == [message |-> msg, status |-> status, code |-> code]

\* the try block of generateResponseFromProvider (and of the generator it calls),
\* r being the reply of the HTTP call when one is made: a value or a thrown Error
TryBody(p, r) ==
    IF p \notin Providers
    THEN [threw |-> TRUE, value |-> Success(p, <<>>),
          error |-> Err(<<"Unsupported provider:", p>>, 0, "")]
    ELSE IF ~Truthy(validateApiKey(p))
    THEN [threw |-> TRUE, value |-> Success(p, <<>>),
          error |-> Err(<<ProviderName(p), "API key not configured">>, 0, "")]
    ELSE IF r.status = 200
    THEN IF r.content = <<>>
         THEN [threw |-> TRUE, value |-> Success(p, <<>>),
               error |-> Err(<<"No response generated from API">>, 0, "")]
         ELSE [threw |-> FALSE, value |-> Success(p, trim(r.content)), error |-> Err(Absent, 0, "")]
    ELSE [threw |-> TRUE, value |-> Success(p, <<>>),
          error |-> Err(<<"Request failed", r.code>>, r.status, r.code)]

\* mutant: the switch has lost its case 429
CatchBlockNo429(p, e) ==
    IF e.status > 0 THEN
        CASE e.status = 401 -> Failure(p, "auth_error", <<"Invalid API key for", ProviderName(p)>>)
          [] e.status = 400 -> Failure(p, "bad_request", <<"Bad request to", ProviderName(p)>>)
          [] e.status \in {500, 502, 503} ->
                Failure(p, "service_error", <<ProviderName(p), "service temporarily unavailable">>)
          [] OTHER -> Failure(p, "api_error", <<ProviderName(p), "API error:">> \o e.message)
    ELSE IF e.code = "ECONNABORTED"
         THEN Failure(p, "timeout", <<"Timeout:", ProviderName(p), "took too long to respond">>)
         ELSE Failure(p, "unknown", e.message)

\* mutant: the default branch of the switch does not set errorType
CatchBlockNoDefault(p, e) ==
    IF e.status > 0 THEN
        CASE e.status = 401 -> Failure(p, "auth_error", <<"Invalid API key for", ProviderName(p)>>)
          [] e.status = 429 -> Failure(p, "rate_limit", <<"Rate limit exceeded for",
                                          ProviderName(p)>>)
          [] e.status = 400 -> Failure(p, "bad_request", <<"Bad request to", ProviderName(p)>>)
          [] e.status \in {500, 502, 503} ->
                Failure(p, "service_error", <<ProviderName(p), "service temporarily unavailable">>)
          [] OTHER -> Failure(p, "unknown", <<ProviderName(p), "API error:">> \o e.message)
    ELSE IF e.code = "ECONNABORTED"
         THEN Failure(p, "timeout", <<"Timeout:", ProviderName(p), "took too long to respond">>)
         ELSE Failure(p, "unknown", e.message)

\* mutant: case 503 is missing from the group of service errors
CatchBlockNo503(p, e) ==
    IF e.status > 0 THEN
        CASE e.status = 401 -> Failure(p, "auth_error", <<"Invalid API key for", ProviderName(p)>>)
          [] e.status = 429 -> Failure(p, "rate_limit", <<"Rate limit exceeded for",
                                          ProviderName(p)>>)
          [] e.status = 400 -> Failure(p, "bad_request", <<"Bad request to", ProviderName(p)>>)
          [] e.status \in {500, 502} ->
                Failure(p, "service_error", <<ProviderName(p), "service temporarily unavailable">>)
          [] OTHER -> Failure(p, "api_error", <<ProviderName(p), "API error:">> \o e.message)
    ELSE IF e.code = "ECONNABORTED"
         THEN Failure(p, "timeout", <<"Timeout:", ProviderName(p), "took too long to respond">>)
         ELSE Failure(p, "unknown", e.message)

\* the catch block of generateResponseFromProvider
CatchBlock(p, e) ==
    IF e.status > 0 THEN
        CASE e.status = 401 -> Failure(p, "auth_error", <<"Invalid API key for", ProviderName(p)>>)
          [] e.status = 429 -> Failure(p, "rate_limit", <<"Rate limit exceeded for",
                                          ProviderName(p)>>)
          [] e.status = 400 -> Failure(p, "bad_request", <<"Bad request to", ProviderName(p)>>)
          [] e.status \in {500, 502, 503} ->
                Failure(p, "service_error", <<ProviderName(p), "service temporarily unavailable">>)
          [] OTHER -> Failure(p, "api_error", <<ProviderName(p), "API error:">> \o e.message)
    ELSE IF e.code = "ECONNABORTED"
         THEN Failure(p, "timeout", <<"Timeout:", ProviderName(p), "took too long to respond">>)
         ELSE Failure(p, "unknown", e.message)

Fulfilled(v) == [status |-> "fulfilled", value |-> v, reason |-> Absent]

Rejected(msg) == [status |-> "rejected", value |-> <<>>, reason |-> msg]

\* mutant: the generators are called without the key checks before them
ReachesNetworkUnchecked(p) == p \in Providers

\* whether generateResponseFromProvider(p) reaches the axios.post of its generator
ReachesNetwork(p) == p \in Providers /\ Truthy(validateApiKey(p))

\* mutant: a generateResponseFromProvider without its try/catch
GenerateUncaught(p, r) ==
    LET t == TryBody(p, r)
    IN  IF t.threw THEN Rejected(t.error.message) ELSE Fulfilled(t.value)

\* the promise generateResponseFromProvider(p) settles to, r being the reply of
\* its HTTP call when it makes one
generateResponseFromProvider(p, r) ==
    LET t == TryBody(p, r)
    IN  Fulfilled(IF t.threw THEN CatchBlock(p, t.error) ELSE t.value)

-----------------------------------------------------------------------------
(* Dispatch engine: generateResponseFromProvider, generateMultiProviderResponses *)

NoResult == [kind |-> "none", value |-> <<>>]

Returned(v) == [kind |-> "value", value |-> v]

Thrown(msg) == [kind |-> "throw", value |-> msg]

\* provider lists a caller hands to generateMultiProviderResponses
RequestLists == UNION {[1..n -> ProviderIds] : n \in 0..MaxReq} \cup {ProviderOrder}

AllSettled(cs) == \A i \in 1..Len(cs) : cs[i].reply /= Pending

\* what an awaiting caller gets from a settled promise
Await(promise) ==
    IF promise.status = "fulfilled" THEN Returned(promise.value) ELSE Thrown(promise.reason)

\* mutant: the fail-fast check is missing
NeverFailFast(available) == FALSE

\* if (availableProviders.length === 0) throw
NoneAvailable(available) == Len(available) = 0

\* mutant: results collected as the calls complete
JoinByCompletion(available, promises) ==
    [i \in 1..Len(promises) |-> promises[order'[i]].value]

\* mutant: the first failure is reported for every provider (a fail-fast join)
JoinFailFast(available, promises) ==
    LET failed == {i \in 1..Len(promises) : ~promises[i].value.success}
        first == CHOOSE i \in failed : \A j \in failed : i <= j
    IN  [i \in 1..Len(promises) |->
            IF failed = {} THEN promises[i].value
            ELSE [promises[first].value EXCEPT !.provider = available[i]]]

\* mutant: a call's timeout cancels the calls of its siblings
JoinCancelOnTimeout(available, promises) ==
    LET expired == \E i \in 1..Len(promises) :
                      ~promises[i].value.success /\ promises[i].value.errorType = "timeout"
    IN  [i \in 1..Len(promises) |->
            IF expired
            THEN Failure(available[i], "timeout",
                         <<"Timeout:", ProviderName(available[i]), "took too long to respond">>)
            ELSE promises[i].value]

\* Promise.allSettled(promises).then(results => results.map((result, index) => ...))
JoinResults(available, promises) ==
    [i \in 1..Len(promises) |->
        IF promises[i].status = "fulfilled"
        THEN promises[i].value @@ [provider |-> available[i]]
        ELSE Failure(available[i], "promise_error", promises[i].reason)]

\* the axios.post of a generator in flight: its provider, the timeout in its
\* request config, and the reply once there is one
Call(p, settings) ==
    [provider |-> p, timeout |-> (settings @@ DEFAULT_SETTINGS).timeout, reply |-> Pending]

\* generateResponseFromProvider(p, userMessage, settings) called on its own
GenerateStart(p, settings) ==
    /\ op = "idle"
    /\ op' = "generate"
    /\ requested' = <<p>>
    /\ order' = <<>>
    /\ IF ReachesNetwork(p)
       THEN /\ calls' = <<Call(p, settings)>>
            /\ contacted' = contacted \cup {p}
            /\ opNet' = 1
            /\ result' = NoResult
       ELSE /\ calls' = <<>>
            /\ result' = Await(generateResponseFromProvider(p, Pending))
            /\ UNCHANGED <<contacted, opNet>>
    /\ UNCHANGED <<apiKey, tIdx, orphans, jvars, chat>>

\* generateMultiProviderResponses(providers, ...) up to its await: the filter,
\* the fail-fast throw, and one generateResponseFromProvider call per available
\* provider, each running synchronously up to its axios.post
GenerateManyCall(P, settings) ==
    /\ op = "idle"
    /\ op' = "many"
    /\ requested' = P
    /\ order' = <<>>
    /\ LET available == FilterValid(P) IN
       IF NoneAvailable(available)
       THEN /\ result' = Thrown("No valid API keys configured for any providers")
            /\ calls' = <<>>
            /\ UNCHANGED <<contacted, opNet>>
       ELSE /\ calls' = [i \in 1..Len(available) |-> Call(available[i], settings)]
            /\ contacted' = contacted \cup
                    {available[i] : i \in {j \in 1..Len(available) : ReachesNetwork(available[j])}}
            /\ opNet' = Cardinality({j \in 1..Len(available) : ReachesNetwork(available[j])})
            /\ result' = NoResult
    /\ UNCHANGED <<apiKey, tIdx, orphans, jvars>>

\* generateMultiProviderResponses called on its own
GenerateManyStart(P, settings) == GenerateManyCall(P, settings) /\ UNCHANGED chat

\* the backend of call i replies with r (in any order among the calls in flight);
\* the call's continuation runs, and the caller's once every promise is settled
Complete(i, r) ==
    /\ op \in {"generate", "many"}
    /\ i \in 1..Len(calls)
    /\ calls[i].reply = Pending
    /\ calls' = [calls EXCEPT ![i].reply = r]
    /\ order' = Append(order, i)
    /\ result' =
         IF op = "generate"
         THEN Await(generateResponseFromProvider(calls'[1].provider, r))
         ELSE IF AllSettled(calls')
              THEN Returned(JoinResults(FilterValid(requested),
                        [j \in 1..Len(calls') |->
                            generateResponseFromProvider(calls'[j].provider, calls'[j].reply)]))
              ELSE NoResult
    /\ UNCHANGED <<apiKey, op, requested, contacted, opNet, tIdx, orphans, jvars, chat>>

-----------------------------------------------------------------------------
(* Connection tester: testProviderConnections, getProviderStatus *)

NumProviders == Len(ProviderOrder)

NoEntry == [status |-> "none", errorType |-> "absent", available |-> FALSE]

NotConfigured == [status |-> "not_configured", errorType |-> "absent", available |-> FALSE]

\* results[providerId] for a probe whose generateResponseFromProvider returned v
ProbeEntry(v) ==
    IF v.success
    THEN [status |-> "connected", errorType |-> "absent", available |-> TRUE]
    ELSE [status |-> "error", errorType |-> v.errorType, available |-> FALSE]

\* results[providerId] for the promise that won the race
RaceEntry(promise) ==
    IF promise.status = "fulfilled" THEN ProbeEntry(promise.value)
    ELSE [status |-> "error", errorType |-> "connection_error", available |-> FALSE]

\* results[providerId] when the 10 s timer of the race rejects first: the catch
\* block sees no response and a message that includes 'timeout'
TimerEntry == [status |-> "error", errorType |-> "timeout", available |-> FALSE]

\* first position >= i of a provider with a valid key (NumProviders + 1: none)
RECURSIVE NextConfigured(_)
NextConfigured(i) ==
    IF i > NumProviders THEN i
    ELSE IF Truthy(validateApiKey(ProviderOrder[i])) THEN i
    ELSE NextConfigured(i + 1)

\* the loop of testProviderConnections from position i up to its next await:
\* unconfigured providers are recorded without a call, the next configured one
\* is probed; past the last provider the results are sent
TestLoopFrom(i, res) ==
    LET j == NextConfigured(i)
        res2 == [p \in Providers |->
                    IF \E k \in i..(j - 1) : k <= NumProviders /\ ProviderOrder[k] = p
                    THEN NotConfigured ELSE res[p]]
    IN  IF j > NumProviders
        THEN /\ result' = Returned(res2)
             /\ calls' = <<>>
             /\ tIdx' = j
             /\ UNCHANGED <<contacted, opNet>>
        ELSE /\ result' = [kind |-> "partial", value |-> res2]
             /\ calls' = <<Call(ProviderOrder[j], ProbeSettings)>>
             /\ tIdx' = j
             /\ contacted' = contacted \cup {ProviderOrder[j]}
             /\ opNet' = opNet + 1

TestAllStart ==
    /\ op = "idle"
    /\ op' = "test"
    /\ requested' = <<>>
    /\ order' = <<>>
    /\ TestLoopFrom(1, [p \in Providers |-> NoEntry])
    /\ UNCHANGED <<apiKey, orphans, jvars, chat>>

\* the probe's generateResponseFromProvider wins the race
ProbeReply(r) ==
    /\ op = "test"
    /\ result.kind = "partial"
    /\ calls[1].reply = Pending
    /\ LET p == calls[1].provider
           v == generateResponseFromProvider(p, r)
       IN TestLoopFrom(tIdx + 1, [result.value EXCEPT ![p] = RaceEntry(v)])
    /\ UNCHANGED <<apiKey, op, requested, order, orphans, jvars, chat>>

\* the 10 s timer wins the race; the probe's HTTP call stays in flight
ProbeTimer ==
    /\ op = "test"
    /\ result.kind = "partial"
    /\ calls[1].reply = Pending
    /\ LET p == calls[1].provider
       IN /\ TestLoopFrom(tIdx + 1, [result.value EXCEPT ![p] = TimerEntry])
          /\ orphans' = orphans \cup {p}
    /\ UNCHANGED <<apiKey, op, requested, order, jvars, chat>>

\* an abandoned probe call settles; nobody reads its value
OrphanSettles(p) ==
    /\ p \in orphans
    /\ orphans' = orphans \ {p}
    /\ UNCHANGED <<apiKey, op, requested, calls, order, result, contacted, opNet, tIdx, jvars, chat>>

\* getProviderStatus: synchronous, reads PROVIDERS only; the request may be
\* repeated as soon as its answer is out
StatusReport ==
    /\ op \in {"idle", "status"}
    /\ op' = "status"
    /\ result' = Returned([p \in Providers |->
                    [name |-> ProviderName(p), configured |-> validateApiKey(p),
                     models |-> Models(p), defaultModel |-> DefaultModel(p)]])
    /\ UNCHANGED <<apiKey, requested, calls, order, contacted, opNet, tIdx, orphans, jvars, chat>>

\* the caller has its answer; the next operation starts from scratch
Return ==
    /\ op /= "idle"
    /\ result.kind \in {"value", "throw"}
    /\ op' = "idle"
    /\ requested' = <<>>
    /\ calls' = <<>>
    /\ order' = <<>>
    /\ result' = NoResult
    /\ opNet' = 0
    /\ tIdx' = 0
    /\ orphans' = {}
    /\ contacted' = {}
    /\ UNCHANGED <<apiKey, jvars, chat>>

-----------------------------------------------------------------------------

(* Chat controller: messageController.sendMultiLLMMessage, Message.multiResponses *)

\* enum of multiResponses.errorType
MessageErrorTypes ==
    {"auth_error", "rate_limit", "bad_request", "service_error", "api_error", "timeout",
     "promise_error"}

\* mongoose's validation of one element of multiResponses: provider, content
\* and model are required (an empty string does not satisfy required), and
\* provider and errorType, when present, are of their enum
ValidMultiResponse(resp) ==
    /\ resp.provider \in {"gemini", "openai", "claude", "perplexity"}
    /\ resp.content /= Absent /\ resp.content /= <<>>
    /\ resp.model /= "absent"
    /\ resp.errorType = "absent" \/ resp.errorType \in MessageErrorTypes

\* io.to(`chat_${chatId}`).emit(type, {provider, ...})
Event(type, provider) == [type |-> type, provider |-> provider]

ChatIdle ==
    [pc |-> "idle", target |-> <<>>, events |-> <<>>, returned |-> NoResult,
     saved |-> <<>>, assistant |-> "none", status |-> 0]

\* sendMultiLLMMessage up to its await of generateMultiProviderResponses: the
\* chat lookup, the user message, the llm_thinking events, and the call
SendMultiStart(found, providers, settings) ==
    /\ chat.pc = "idle"
    /\ op = "idle"
    /\ IF ~found
       THEN /\ chat' = [ChatIdle EXCEPT !.pc = "done", !.status = 404]
            /\ UNCHANGED <<dvars, jvars>>
       ELSE LET targetProviders ==
                    IF Len(providers) > 0 THEN providers ELSE getAvailableProviders
            IN  /\ chat' = [ChatIdle EXCEPT
                              !.pc = "generating",
                              !.target = targetProviders,
                              !.events = <<Event("new_message", "user")>> \o
                                         [i \in 1..Len(targetProviders) |->
                                             Event("llm_thinking", targetProviders[i])]]
                /\ GenerateManyCall(targetProviders, settings)

\* sendMultiLLMMessage from the settling of generateMultiProviderResponses on:
\* Message.create with its validation, the llm_response events and the final
\* new_message, or the catch block with its llm_error events
SendMultiFinish ==
    /\ chat.pc = "generating"
    /\ op = "many"
    /\ result.kind /= "none"
    /\ IF /\ result.kind = "value"
          /\ \A i \in 1..Len(result.value) : ValidMultiResponse(result.value[i])
       THEN chat' = [chat EXCEPT
                        !.pc = "done",
                        !.returned = result,
                        !.saved = result.value,
                        !.assistant = "saved",
                        !.events = @ \o [i \in 1..Len(result.value) |->
                                            Event("llm_response", result.value[i].provider)]
                                     \o <<Event("new_message", "assistant")>>,
                        !.status = 201]
       ELSE chat' = [chat EXCEPT
                        !.pc = "done",
                        !.returned = result,
                        !.assistant = "null",
                        !.events = @ \o [i \in 1..Len(chat.target) |->
                                            Event("llm_error", chat.target[i])],
                        !.status = 201]
    /\ op' = "idle"
    /\ requested' = <<>>
    /\ calls' = <<>>
    /\ order' = <<>>
    /\ result' = NoResult
    /\ opNet' = 0
    /\ tIdx' = 0
    /\ orphans' = {}
    /\ contacted' = {}
    /\ UNCHANGED <<apiKey, jvars>>

\* the response is out; the next request finds nothing of this one
SendMultiRespond ==
    /\ chat.pc = "done"
    /\ chat' = ChatIdle
    /\ UNCHANGED <<dvars, jvars>>

-----------------------------------------------------------------------------
(* Role-play variant of the dispatch engine: one backend answers for every *)
(* provider id (generateGeminiResponse and its wrappers)                    *)

\* !API_KEY, for process.env.GEMINI_API_KEY: the template's placeholder is a
\* non-empty string and passes
GeminiKeyMissing == apiKey["gemini"] = "unset"

\* the timeout of the axios.post of generateGeminiResponse and generateAIResponse
GeminiTimeout == 30000

\* a call that threw before its axios.post
NotSent == [status |-> -2, code |-> "not sent", content |-> <<>>]

\* the promise generateGeminiResponse(userMessage, p) settles to, r being the
\* reply of its axios.post when it makes one
generateGeminiResponse(p, r) ==
    IF GeminiKeyMissing
    THEN Rejected(<<"Gemini API key not configured">>)
    ELSE IF r.status = 200
    THEN IF r.content = <<>>
         THEN Rejected(<<"No response generated from Gemini API">>)
         ELSE Fulfilled([content |-> trim(r.content), provider |-> p,
                         model |-> "gemini-2.5-flash", success |-> TRUE])
    ELSE Rejected(<<"Request failed", r.code>>)

\* mutant: the join waits for every call and reports failures in place
RolePlayJoinSettled(cs, ord) ==
    IF Len(ord) < Len(cs) THEN NoResult
    ELSE Returned([i \in 1..Len(cs) |->
            LET out == generateGeminiResponse(cs[i].provider, cs[i].reply)
            IN  IF out.status = "fulfilled" THEN out.value
                ELSE [content |-> Absent, provider |-> cs[i].provider,
                      model |-> "gemini-2.5-flash", success |-> FALSE]])

\* await Promise.all(providers.map(...)) over the calls cs, of which those of
\* ord have settled, in that order: the reason of the first rejection, or the
\* values in input order once every call has fulfilled
RolePlayJoin(cs, ord) ==
    LET out(i) == generateGeminiResponse(cs[i].provider, cs[i].reply)
        rejected == {k \in 1..Len(ord) : out(ord[k]).status = "rejected"}
    IN  IF rejected /= {}
        THEN Thrown(out(ord[CHOOSE k \in rejected : \A l \in rejected : k <= l]).reason)
        ELSE IF Len(ord) = Len(cs)
        THEN Returned([i \in 1..Len(cs) |-> out(i).value])
        ELSE NoResult

\* generateMultiProviderResponses(providers, ...) of the role-play variant up
\* to its await: one generateGeminiResponse per requested id, each running
\* synchronously up to its key check and axios.post
RolePlayManyStart(P) ==
    /\ op = "idle"
    /\ op' = "rpmany"
    /\ requested' = P
    /\ IF GeminiKeyMissing
       THEN /\ calls' = [i \in 1..Len(P) |->
                            [provider |-> P[i], timeout |-> GeminiTimeout, reply |-> NotSent]]
            /\ order' = [i \in 1..Len(P) |-> i]
            /\ UNCHANGED <<contacted, opNet>>
       ELSE /\ calls' = [i \in 1..Len(P) |->
                            [provider |-> P[i], timeout |-> GeminiTimeout, reply |-> Pending]]
            /\ order' = <<>>
            /\ contacted' = {P[i] : i \in 1..Len(P)}
            /\ opNet' = Len(P)
    /\ result' = RolePlayJoin(calls', order')
    /\ UNCHANGED <<apiKey, tIdx, orphans, jvars, chat>>

\* the backend replies to call i with r; the call's promise settles, and
\* Promise.all with it when this is the first rejection or the last fulfilment
RolePlayComplete(i, r) ==
    /\ op = "rpmany"
    /\ i \in 1..Len(calls)
    /\ calls[i].reply = Pending
    /\ calls' = [calls EXCEPT ![i].reply = r]
    /\ order' = Append(order, i)
    /\ result' = RolePlayJoin(calls', order')
    /\ UNCHANGED <<apiKey, op, requested, contacted, opNet, tIdx, orphans, jvars, chat>>

-----------------------------------------------------------------------------
(* Single-model chat: geminiService.generateAIResponse *)

\* DEFAULT_SETTINGS of geminiService (temperature in tenths)
GEMINI_DEFAULT_SETTINGS == [model |-> "gemini-pro", temperature |-> 7, maxTokens |-> 1000]

\* the try block of generateAIResponse, r being the reply of its axios.post
\* when it makes one; a reply of the catalogue carries no usageMetadata
GeminiTryBody(settings, r) ==
    LET merged == settings @@ GEMINI_DEFAULT_SETTINGS
        value(content) == [content |-> content, model |-> merged.model,
                           tokens |-> [prompt |-> 0, completion |-> 0, total |-> 0],
                           temperature |-> merged.temperature]
    IN  IF GeminiKeyMissing
        THEN [threw |-> TRUE, value |-> value(<<>>),
              error |-> <<"Gemini API key not configured">>]
        ELSE IF r.status = 200
        THEN IF r.content = <<>>
             THEN [threw |-> TRUE, value |-> value(<<>>),
                   error |-> <<"No response generated from Gemini API">>]
             ELSE [threw |-> FALSE, value |-> value(trim(r.content)), error |-> Absent]
        ELSE [threw |-> TRUE, value |-> value(<<>>), error |-> <<"Request failed", r.code>>]

\* the catch block of generateAIResponse: its object literal reads settings
\* (and startTime), which are const bindings of the try block and out of scope
\* here, so evaluating it throws a ReferenceError
GeminiCatch(settings, msg) ==
    Rejected(<<"ReferenceError:", "settings is not defined">>)

\* the promise generateAIResponse(userMessage, settings) settles to
generateAIResponse(settings, r) ==
    LET t == GeminiTryBody(settings, r)
    IN  IF t.threw THEN GeminiCatch(settings, t.error) ELSE Fulfilled(t.value)

\* generateAIResponse called (by sendMessage) with the chat's settings
GeminiStart(settings) ==
    /\ op = "idle"
    /\ op' = "gemini"
    /\ requested' = <<"gemini">>
    /\ order' = <<>>
    /\ IF GeminiKeyMissing
       THEN /\ calls' = <<>>
            /\ result' = Await(generateAIResponse(settings, NotSent))
            /\ UNCHANGED <<contacted, opNet>>
       ELSE /\ calls' = <<[provider |-> "gemini", timeout |-> GeminiTimeout,
                           reply |-> Pending, settings |-> settings]>>
            /\ contacted' = {"gemini"}
            /\ opNet' = 1
            /\ result' = NoResult
    /\ UNCHANGED <<apiKey, tIdx, orphans, jvars, chat>>

\* the backend replies with r and the rest of generateAIResponse runs
GeminiComplete(r) ==
    /\ op = "gemini"
    /\ calls /= <<>>
    /\ calls[1].reply = Pending
    /\ calls' = [calls EXCEPT ![1].reply = r]
    /\ order' = <<1>>
    /\ result' = Await(generateAIResponse(calls[1].settings, r))
    /\ UNCHANGED <<apiKey, op, requested, contacted, opNet, tIdx, orphans, jvars, chat>>

-----------------------------------------------------------------------------
(* Text, continued: the String and Array methods the judge uses *)

\* String.prototype.startsWith
startsWith(s, prefix) ==
    Len(s) >= Len(prefix) /\ SubSeq(s, 1, Len(prefix)) = prefix

\* String.prototype.substring(n)
substring(s, n) == SubSeq(s, n + 1, Len(s))

\* String.prototype.split(sep), sep one character: the pieces of s from
\* position from on, cut at each separator
RECURSIVE SplitAcc(_, _, _)
SplitAcc(s, sep, from) ==
    LET hits == {i \in from..Len(s) : s[i] = sep}
    IN  IF hits = {} THEN <<SubSeq(s, from, Len(s))>>
        ELSE LET i == CHOOSE h \in hits : \A g \in hits : h <= g
             IN  <<SubSeq(s, from, i - 1)>> \o SplitAcc(s, sep, i + 1)

split(s, sep) == SplitAcc(s, sep, 1)

\* Array.prototype.join(sep)
RECURSIVE join(_, _)
join(parts, sep) ==
    IF parts = <<>> THEN <<>>
    ELSE IF Len(parts) = 1 THEN parts[1]
    ELSE parts[1] \o sep \o join(Tail(parts), sep)

\* Array.prototype.filter(line => line), on strings: the non-empty ones
RECURSIVE NonEmpty(_)
NonEmpty(parts) ==
    IF parts = <<>> THEN <<>>
    ELSE IF Head(parts) = <<>> THEN NonEmpty(Tail(parts))
    ELSE <<Head(parts)>> \o NonEmpty(Tail(parts))

\* String(n) for 0 <= n <= 99
Digits == <<"0", "1", "2", "3", "4", "5", "6", "7", "8", "9">>

NumberToString(n) ==
    IF n < 10 THEN <<Digits[n + 1]>> ELSE <<Digits[(n \div 10) + 1], Digits[(n % 10) + 1]>>

(* Judge evaluator: judgeService.parseJudgement *)

LabelRanking ==
    <<"R", "A", "N", "K", "I", "N", "G", ":">>

LabelScores ==
    <<"S", "C", "O", "R", "E", "S", ":">>

LabelReasoning ==
    <<"R", "E", "A", "S", "O", "N", "I", "N", "G", ":">>

NotProvided ==
    <<"N", "o", "t", " ", "p", "r", "o", "v", "i", "d", "e", "d">>

NoReasoning ==
    <<"N", "o", " ", "r", "e", "a", "s", "o", "n", "i", "n", "g", " ", "p", "r", "o", "v",
    "i", "d", "e", "d">>

ParseError ==
    <<"P", "a", "r", "s", "e", " ", "e", "r", "r", "o", "r">>

ParseFailed ==
    <<"F", "a", "i", "l", "e", "d", " ", "t", "o", " ", "p", "a", "r", "s", "e", " ", "m",
    "o", "d", "e", "l", " ", "r", "e", "s", "p", "o", "n", "s", "e">>

\* what the judge model's reply is normalised to: a string, or (generated_text
\* present but null) a value that is no string
Text(s) == [isString |-> TRUE, chars |-> s]

NoText == [isString |-> FALSE, chars |-> <<>>]

\* the for loop of parseJudgement over lines[i..]; an unset ranking or scores
\* (null) and an empty one are both falsy, and both are held as <<>>
RECURSIVE ParseLoop(_, _, _, _)
ParseLoop(lines, i, ranking, scores) ==
    IF i > Len(lines)
    THEN [ranking |-> ranking, scores |-> scores, reasoning |-> <<>>]
    ELSE LET line == lines[i] IN
         IF startsWith(toUpperCase(line), LabelRanking)
         THEN ParseLoop(lines, i + 1, trim(substring(line, Len(LabelRanking))), scores)
         ELSE IF startsWith(toUpperCase(line), LabelScores)
         THEN ParseLoop(lines, i + 1, ranking, trim(substring(line, Len(LabelScores))))
         ELSE IF startsWith(toUpperCase(line), LabelReasoning)
         THEN [ranking |-> ranking, scores |-> scores,
               reasoning |-> trim(substring(join(SubSeq(lines, i, Len(lines)), <<" ">>),
                                            Len(LabelReasoning)))]
         ELSE ParseLoop(lines, i + 1, ranking, scores)

\* mutant: the default is forgotten
OrElseNothing(s, default) == s

\* x || default, on strings
OrElse(s, default) == IF s = <<>> THEN default ELSE s

\* mutant: one marker serves as the default of all three fields
parseJudgementOneDefault(rawText) ==
    IF ~rawText.isString
    THEN [ranking |-> ParseError, scores |-> ParseError, reasoning |-> ParseFailed,
          fullText |-> rawText]
    ELSE LET lines == NonEmpty([k \in 1..Len(split(rawText.chars, "\n")) |->
                                    trim(split(rawText.chars, "\n")[k])])
             got == ParseLoop(lines, 1, <<>>, <<>>)
         IN  [ranking |-> OrElse(got.ranking, NotProvided),
              scores |-> OrElse(got.scores, NotProvided),
              reasoning |-> OrElse(got.reasoning, NotProvided),
              fullText |-> rawText]

parseJudgement(rawText) ==
    IF ~rawText.isString
    THEN [ranking |-> ParseError, scores |-> ParseError, reasoning |-> ParseFailed,
          fullText |-> rawText]
    ELSE LET lines == NonEmpty([k \in 1..Len(split(rawText.chars, "\n")) |->
                                    trim(split(rawText.chars, "\n")[k])])
             got == ParseLoop(lines, 1, <<>>, <<>>)
         IN  [ranking |-> OrElse(got.ranking, NotProvided),
              scores |-> OrElse(got.scores, NotProvided),
              reasoning |-> OrElse(got.reasoning, NoReasoning),
              fullText |-> rawText]


(* Judge evaluator: judgeService.generateMockJudgement *)

\* what generateMockJudgement reads of a response: response.split(' ').length,
\* /\d/.test(response), /[!@#$%^&*(),.?":{}|<>]/.test(response); a response
\* that is no string has no split method
Response(wc, num, special) ==
    [isString |-> TRUE, wordCount |-> wc, hasNumbers |-> num, hasSpecialChars |-> special]

NonStringResponse ==
    [isString |-> FALSE, wordCount |-> 0, hasNumbers |-> TRUE, hasSpecialChars |-> FALSE]

\* Math.min(10, Math.max(1, wordCount * 0.1 + (hasNumbers ? 1 : 0) +
\* (hasSpecialChars ? 0.5 : 0) + Math.random() * 3)), in hundredths; rnd is
\* Math.random() in hundredths (0..99)
MockScore(resp, rnd) ==
    LET raw == resp.wordCount * 10 + (IF resp.hasNumbers THEN 100 ELSE 0)
               + (IF resp.hasSpecialChars THEN 50 ELSE 0) + 3 * rnd
        atLeast == IF raw < 100 THEN 100 ELSE raw
    IN  IF atLeast > 1000 THEN 1000 ELSE atLeast

\* Math.round of a score in hundredths
Round(score) == (score + 50) \div 100

\* mutant: the scored responses are left in the order of the request
SortByIndex(score) == [k \in 1..Len(score) |-> k]

\* .sort((a, b) => b.score - a.score): stable, by descending score; the
\* result lists the 1-based indices
SortByScore(score) ==
    LET n == Len(score)
        pos(i) == 1 + Cardinality({j \in 1..n : score[j] > score[i]
                                                \/ (score[j] = score[i] /\ j < i)})
    IN  [k \in 1..n |-> CHOOSE i \in 1..n : pos(i) = k]

CommaSpace ==
    <<",", " ">>

MockReasonA ==
    <<"M", "o", "c", "k", " ", "e", "v", "a", "l", "u", "a", "t", "i", "o", "n", " ", "b",
    "a", "s", "e", "d", " ", "o", "n", " ", "r", "e", "s", "p", "o", "n", "s", "e", " ",
    "l", "e", "n", "g", "t", "h", ",", " ", "c", "o", "n", "t", "e", "n", "t", " ", "r",
    "i", "c", "h", "n", "e", "s", "s", ",", " ", "a", "n", "d", " ", "c", "o", "m", "p",
    "l", "e", "t", "e", "n", "e", "s", "s", ".", " ", "R", "e", "s", "p", "o", "n", "s",
    "e", " ">>

MockReasonB ==
    <<" ", "a", "p", "p", "e", "a", "r", "s", " ", "m", "o", "s", "t", " ", "c", "o", "m",
    "p", "r", "e", "h", "e", "n", "s", "i", "v", "e", " ", "w", "i", "t", "h", " ">>

MockReasonC ==
    <<" ", "w", "o", "r", "d", "s", " ", "a", "n", "d", " ", "d", "e", "t", "a", "i", "l",
    "e", "d", " ", "c", "o", "n", "t", "e", "n", "t", " ", "s", "t", "r", "u", "c", "t",
    "u", "r", "e", ".", " ", "T", "h", "i", "s", " ", "i", "s", " ", "a", " ", "f", "a",
    "l", "l", "b", "a", "c", "k", " ", "r", "e", "s", "p", "o", "n", "s", "e", " ", "d",
    "u", "e", " ", "t", "o", " ", "A", "I", " ", "m", "o", "d", "e", "l", " ", "u", "n",
    "a", "v", "a", "i", "l", "a", "b", "i", "l", "i", "t", "y", ".">>

\* mutant: the SCORES label follows the ranking on the same line
MockFullBSameLine ==
    <<" ", "S", "C", "O", "R", "E", "S", ":", " ">>

MockFullB ==
    <<"\n", "S", "C", "O", "R", "E", "S", ":", " ">>

MockRawOutput ==
    <<"M", "o", "c", "k", " ", "r", "e", "s", "p", "o", "n", "s", "e", " ", "-", " ", "H",
    "F", " ", "A", "P", "I", " ", "u", "n", "a", "v", "a", "i", "l", "a", "b", "l", "e">>

\* mutant: the mock's fullText is the rawOutput marker of the mock path
MockJudgementEchoesRaw(responses, rnd) ==
    LET score == [i \in 1..Len(responses) |-> MockScore(responses[i], rnd[i])]
        ranked == SortByScore(score)
    IN  [ranking |-> join([k \in 1..Len(ranked) |-> NumberToString(ranked[k])], CommaSpace),
         scores |-> join([i \in 1..Len(responses) |-> NumberToString(Round(score[i]))],
                         CommaSpace),
         reasoning |-> MockReasonA \o NumberToString(ranked[1]) \o MockReasonB
                       \o NumberToString(responses[ranked[1]].wordCount) \o MockReasonC,
         fullText |-> Text(MockRawOutput)]

generateMockJudgement(responses, rnd) ==
    LET score == [i \in 1..Len(responses) |-> MockScore(responses[i], rnd[i])]
        ranked == SortByScore(score)
        ranking == join([k \in 1..Len(ranked) |-> NumberToString(ranked[k])], CommaSpace)
        scores == join([i \in 1..Len(responses) |-> NumberToString(Round(score[i]))],
                       CommaSpace)
    IN  [ranking |-> ranking,
         scores |-> scores,
         reasoning |-> MockReasonA \o NumberToString(ranked[1]) \o MockReasonB
                       \o NumberToString(responses[ranked[1]].wordCount) \o MockReasonC,
         fullText |-> Text(<<"R", "A", "N", "K", "I", "N", "G", ":",
                             " ">> \o ranking \o MockFullB \o scores \o <<"\n", "R", "E", "A",
                             "S", "O", "N", "I", "N", "G", ":", " ", "M", "o", "c", "k", " ",
                             "e", "v", "a", "l", "u", "a", "t", "i", "o", "n", " ", "-", " ",
                             "A", "I", " ", "j", "u", "d", "g", "e", " ", "m", "o", "d", "e",
                             "l", " ", "t", "e", "m", "p", "o", "r", "a", "r", "i", "l", "y",
                             " ", "u", "n", "a", "v", "a", "i", "l", "a", "b", "l", "e", ".">>)]

(* Judge evaluator: judgeService.judgeResponses, judgeController.judgeResponses *)

\* String.prototype.includes
includes(s, part) ==
    \E i \in 0..(Len(s) - Len(part)) : SubSeq(s, i + 1, i + Len(part)) = part

\* position after the white space of s that starts at position i (regex \s*)
RECURSIVE SkipSpaces(_, _)
SkipSpaces(s, i) == IF i <= Len(s) /\ IsSpace(s[i]) THEN SkipSpaces(s, i + 1) ELSE i

\* whether the literals of lits, in turn, each after any white space, match s
\* from position i on, without regard to case; 0 if not, else the position
\* after the match
RECURSIVE MatchLiterals(_, _, _)
MatchLiterals(s, i, lits) ==
    IF lits = <<>> THEN i
    ELSE LET j == SkipSpaces(s, i)
             lit == toUpperCase(Head(lits))
         IN  IF j + Len(lit) - 1 <= Len(s) /\ toUpperCase(SubSeq(s, j, j + Len(lit) - 1)) = lit
             THEN MatchLiterals(s, j + Len(lit), Tail(lits))
             ELSE 0

WordConversational ==
    <<"c", "o", "n", "v", "e", "r", "s", "a", "t", "i", "o", "n", "a", "l">>

PhraseNoProvider ==
    <<"N", "o", " ", "I", "n", "f", "e", "r", "e", "n", "c", "e", " ", "P", "r", "o", "v",
    "i", "d", "e", "r", " ", "a", "v", "a", "i", "l", "a", "b", "l", "e">>

PhraseFetchFailed ==
    <<"F", "a", "i", "l", "e", "d", " ", "t", "o", " ", "f", "e", "t", "c", "h", " ", "i",
    "n", "f", "e", "r", "e", "n", "c", "e", " ", "p", "r", "o", "v", "i", "d", "e", "r">>

TypeErrorMessage ==
    <<"C", "a", "n", "n", "o", "t", " ", "r", "e", "a", "d", " ", "p", "r", "o", "p", "e",
    "r", "t", "i", "e", "s", " ", "o", "f", " ", "u", "n", "d", "e", "f", "i", "n", "e",
    "d">>

\* /supported\s*for\s*task\s*text-generation[\s\S]*conversational/i
MatchesTaskThenConversational(msg) ==
    \E i \in 1..Len(msg) :
        /\ ~IsSpace(msg[i])
        /\ LET j == MatchLiterals(msg, i, <<<<"s", "u", "p", "p", "o", "r", "t", "e", "d">>,
                                          <<"f", "o", "r">>, <<"t", "a", "s", "k">>, <<"t",
                                          "e", "x", "t", "-", "g", "e", "n", "e", "r", "a",
                                          "t", "i", "o", "n">>>>)
           IN  j > 0 /\ includes(toUpperCase(SubSeq(msg, j, Len(msg))),
                                 toUpperCase(WordConversational))

\* /Supported task:\s*conversational/i
MatchesSupportedTask(msg) ==
    \E i \in 1..Len(msg) :
        /\ ~IsSpace(msg[i])
        /\ MatchLiterals(msg, i, <<<<"S", "u", "p", "p", "o", "r", "t", "e", "d", " ", "t",
                                     "a", "s", "k", ":">>, WordConversational>>) > 0

\* /is not supported for task text-generation/i
MatchesNotSupported(msg) == includes(toUpperCase(msg), toUpperCase(<<"i", "s", " ", "n", "o",
                                          "t", " ", "s", "u", "p", "p", "o", "r", "t", "e",
                                          "d", " ", "f", "o", "r", " ", "t", "a", "s", "k",
                                          " ", "t", "e", "x", "t", "-", "g", "e", "n", "e",
                                          "r", "a", "t", "i", "o", "n">>))

\* a value a rejected invocation is rejected with: an Error carrying a message,
\* or a value without a message property (a thrown string)
ErrorWith(msg) == [hasMessage |-> TRUE, text |-> msg]

BareString(s) == [hasMessage |-> FALSE, text |-> s]

\* String(innerErr?.message || innerErr)
FaultText(f) ==
    IF f.hasMessage /\ f.text /= <<>> THEN f.text
    ELSE IF f.hasMessage THEN <<"E", "r", "r", "o", "r">>
    ELSE f.text

\* the test of the inner catch: the fault tells that the model serves the
\* conversational task only
IsTaskMismatch(f) ==
    LET msg == FaultText(f)
    IN  \/ MatchesTaskThenConversational(msg)
        \/ MatchesSupportedTask(msg)
        \/ MatchesNotSupported(msg)

\* mutant: only the first of the two unavailability phrases is looked for
UnavailableNoProviderOnly(msg) == includes(msg, PhraseNoProvider)

\* mutant: the test also looks at the dispatch engine, taking a fan-out in
\* progress for unavailability
UnavailableOrDispatching(msg) ==
    includes(msg, PhraseNoProvider) \/ includes(msg, PhraseFetchFailed) \/ op = "many"

\* the test of the outer catch for the mock fallback
IsUnavailable(msg) == includes(msg, PhraseNoProvider) \/ includes(msg, PhraseFetchFailed)

\* buildJudgePrompt: the question and responses[0..3] in the fixed template
buildJudgePrompt(question, responses) ==
    [question |-> question, responses |-> SubSeq(responses.items, 1, 4)]

\* !question || !responses || !Array.isArray(responses) || responses.length !== 4
InvalidInput(question, responses) ==
    \/ question = "missing"
    \/ responses.kind /= "array"
    \/ Len(responses.items) /= 4

JudgeNone == [kind |-> "none", success |-> FALSE, judgement |-> <<>>, rawOutput |-> <<>>,
              error |-> <<>>]

JudgeSuccess(judgement, rawOutput) ==
    [kind |-> "value", success |-> TRUE, judgement |-> judgement, rawOutput |-> rawOutput,
     error |-> <<>>]

JudgeFailure(msg) ==
    [kind |-> "value", success |-> FALSE, judgement |-> <<>>, rawOutput |-> <<>>,
     error |-> msg]

JudgeRejected(msg) ==
    [kind |-> "reject", success |-> FALSE, judgement |-> <<>>, rawOutput |-> <<>>,
     error |-> msg]

\* the outer catch block of judgeResponses for the thrown value f; rnd is what
\* Math.random yields for the four responses
OuterCatch(f, responses, rnd) ==
    IF ~f.hasMessage
    THEN JudgeRejected(TypeErrorMessage)
    ELSE IF IsUnavailable(f.text)
    THEN IF \E i \in 1..Len(responses.items) : ~responses.items[i].isString
         THEN JudgeRejected(TypeErrorMessage)
         ELSE JudgeSuccess(generateMockJudgement(responses.items, rnd), Text(MockRawOutput))
    ELSE JudgeFailure(f.text)

\* the HTTP status judgeController answers with once judgeService has settled
StatusFor(res) == IF res.kind = "value" /\ res.success THEN 200 ELSE 500

(* Inputs of the judge: requests, replies of the judge model, faults *)

Questions == {"missing", "nonstring", "text"}

ResponseTexts == {Response(1, FALSE, FALSE), Response(12, TRUE, TRUE)}

ArrayOf(items) == [kind |-> "array", items |-> items]

\* req.body.responses / the responses argument: absent, a value that is no
\* array, an array of 0..MaxResp entries
JudgeResponses ==
    {[kind |-> k, items |-> <<>>] : k \in {"missing", "notarray"}}
    \cup {ArrayOf([i \in 1..n |-> Response(1, FALSE, FALSE)]) : n \in (0..MaxResp) \ {4}}
    \cup {ArrayOf(t) : t \in [1..4 -> ResponseTexts]}
    \cup {ArrayOf(<<Response(40, FALSE, TRUE), Response(1, FALSE, FALSE),
                    Response(99, TRUE, TRUE), Response(12, TRUE, FALSE)>>)}
    \cup {ArrayOf(<<Response(12, TRUE, TRUE), NonStringResponse,
                    Response(1, FALSE, FALSE), Response(40, FALSE, TRUE)>>)}

RandVectors == [1..4 -> {0, 99}]

NoRand == [i \in 1..4 |-> 0]

TextFull ==
    <<"R", "A", "N", "K", "I", "N", "G", ":", " ", "3", ",", " ", "1", ",", " ", "4", ",",
    " ", "2", "\n", "S", "C", "O", "R", "E", "S", ":", " ", "9", ",", " ", "7", ",", " ",
    "8", ",", " ", "6", "\n", "R", "E", "A", "S", "O", "N", "I", "N", "G", ":", " ", "R",
    "e", "s", "p", "o", "n", "s", "e", " ", "3", " ", "i", "s", " ", "b", "e", "s", "t",
    ".">>

TextLowerCase ==
    <<" ", "r", "a", "n", "k", "i", "n", "g", ":", " ", "1", ",", " ", "2", ",", " ", "3",
    ",", " ", "4", "\n", "\n", " ", "s", "c", "o", "r", "e", "s", ":", " ", "5", ",", " ",
    "5", ",", " ", "5", ",", " ", "5", "\n", "r", "e", "a", "s", "o", "n", "i", "n", "g",
    ":", " ", "f", "i", "n", "e", "\n", "a", "l", "l", " ", "e", "q", "u", "a", "l">>

TextNoRanking ==
    <<"S", "C", "O", "R", "E", "S", ":", " ", "9", ",", " ", "7", ",", " ", "8", ",", " ",
    "6", "\n", "R", "E", "A", "S", "O", "N", "I", "N", "G", ":", " ", "n", "o", " ", "o",
    "r", "d", "e", "r", " ", "g", "i", "v", "e", "n">>

TextShort ==
    <<"R", "A", "N", "K", "I", "N", "G", ":", " ", "2", ",", " ", "1", "\n", "S", "C", "O",
    "R", "E", "S", ":", " ", "9", "\n", "R", "E", "A", "S", "O", "N", "I", "N", "G", ":",
    " ", "t", "w", "o", " ", "o", "n", "l", "y">>

TextEmptyFields ==
    <<"R", "A", "N", "K", "I", "N", "G", ":", "\n", "S", "C", "O", "R", "E", "S", ":", " ",
    " ", " ", "\n", "t", "h", "e", " ", "r", "e", "s", "t">>

TextProse ==
    <<"I", " ", "t", "h", "i", "n", "k", " ", "r", "e", "s", "p", "o", "n", "s", "e", " ",
    "2", " ", "i", "s", " ", "t", "h", "e", " ", "b", "e", "s", "t", " ", "o", "n", "e",
    ".">>

TextEmpty ==
    <<>>

TextReasoningFirst ==
    <<"R", "E", "A", "S", "O", "N", "I", "N", "G", ":", " ", "2", " ", "w", "i", "n",
    "s", "\n", "R", "A", "N", "K", "I", "N", "G", ":", " ", "2", ",", " ", "1", ",",
    " ", "3", ",", " ", "4", "\n", "S", "C", "O", "R", "E", "S", ":", " ", "8", ",",
    " ", "9", ",", " ", "7", ",", " ", "6">>

\* what callTextGeneration / callChatCompletion return when the call succeeds
\* (the last one: a model that answers with the words of the mock's rawOutput);
\* callChatCompletion always returns a string
JudgeTexts == {Text(s) : s \in {TextFull, TextLowerCase, TextNoRanking, TextShort,
                                TextEmptyFields, TextProse, TextEmpty, TextReasoningFirst,
                                MockRawOutput}}

MsgMismatch ==
    <<"M", "o", "d", "e", "l", " ", "x", " ", "i", "s", " ", "n", "o", "t", " ", "s", "u",
    "p", "p", "o", "r", "t", "e", "d", " ", "f", "o", "r", " ", "t", "a", "s", "k", " ",
    "t", "e", "x", "t", "-", "g", "e", "n", "e", "r", "a", "t", "i", "o", "n", " ", "a",
    "n", "d", " ", "p", "r", "o", "v", "i", "d", "e", "r", " ", "y", ".", " ", "S", "u",
    "p", "p", "o", "r", "t", "e", "d", " ", "t", "a", "s", "k", ":", " ", "c", "o", "n",
    "v", "e", "r", "s", "a", "t", "i", "o", "n", "a", "l", ".">>

MsgSupportedTask ==
    <<"s", "u", "p", "p", "o", "r", "t", "e", "d", " ", "T", "A", "S", "K", ":", " ", " ",
    "C", "o", "n", "v", "e", "r", "s", "a", "t", "i", "o", "n", "a", "l">>

MsgNotSupported ==
    <<"M", "o", "d", "e", "l", " ", "x", " ", "I", "S", " ", "N", "O", "T", " ", "S", "U",
    "P", "P", "O", "R", "T", "E", "D", " ", "f", "o", "r", " ", "t", "a", "s", "k", " ",
    "t", "e", "x", "t", "-", "g", "e", "n", "e", "r", "a", "t", "i", "o", "n">>

MsgTaskThen ==
    <<"N", "o", "t", " ", "s", "u", "p", "p", "o", "r", "t", "e", "d", " ", " ", "f", "o",
    "r", " ", "t", "a", "s", "k", " ", "t", "e", "x", "t", "-", "g", "e", "n", "e", "r",
    "a", "t", "i", "o", "n", ",", " ", "o", "n", "l", "y", " ", "f", "o", "r", " ", "c",
    "o", "n", "v", "e", "r", "s", "a", "t", "i", "o", "n", "a", "l">>

MsgNoProvider ==
    <<"N", "o", " ", "I", "n", "f", "e", "r", "e", "n", "c", "e", " ", "P", "r", "o", "v",
    "i", "d", "e", "r", " ", "a", "v", "a", "i", "l", "a", "b", "l", "e", " ", "f", "o",
    "r", " ", "m", "o", "d", "e", "l", " ", "x">>

MsgFetchFailed ==
    <<"F", "a", "i", "l", "e", "d", " ", "t", "o", " ", "f", "e", "t", "c", "h", " ", "i",
    "n", "f", "e", "r", "e", "n", "c", "e", " ", "p", "r", "o", "v", "i", "d", "e", "r",
    " ", "i", "n", "f", "o", "r", "m", "a", "t", "i", "o", "n">>

MsgRateLimit ==
    <<"R", "a", "t", "e", " ", "l", "i", "m", "i", "t", " ", "e", "x", "c", "e", "e", "d",
    "e", "d">>

\* what a failing invocation is rejected with
Faults ==
    {ErrorWith(m) : m \in {MsgMismatch, MsgSupportedTask, MsgNotSupported, MsgTaskThen,
                           MsgNoProvider, MsgFetchFailed, <<"n", "o", " ", "i", "n", "f", "e",
                                          "r", "e", "n", "c", "e", " ", "p", "r", "o", "v",
                                          "i", "d", "e", "r", " ", "a", "v", "a", "i", "l",
                                          "a", "b", "l", "e">>, MsgRateLimit,
                           <<>>}}
    \cup {BareString(<<"b", "o", "o", "m">>), BareString(MsgSupportedTask)}

ImpartialJudge ==
    <<"Y", "o", "u", " ", "a", "r", "e", " ", "a", "n", " ", "i", "m", "p", "a", "r", "t",
    "i", "a", "l", " ", "A", "I", " ", "j", "u", "d", "g", "e", ".">>

\* the payload of hf.textGeneration
TextGenerationCall(prompt) == [task |-> "textGeneration", inputs |-> prompt]

\* mutant: the fallback asks about the question alone
ChatWithQuestionOnly(prompt) ==
    [task |-> "chatCompletion",
     messages |-> <<[role |-> "system", content |-> ImpartialJudge],
                    [role |-> "user", content |-> [question |-> prompt.question, responses |-> <<>>]]>>]

\* the payload of hf.chatCompletion
ChatCompletionCall(prompt) ==
    [task |-> "chatCompletion",
     messages |-> <<[role |-> "system", content |-> ImpartialJudge],
                    [role |-> "user", content |-> prompt]>>]

NoRequest == [via |-> "none", question |-> "missing", responses |-> [kind |-> "missing", items |-> <<>>]]

NoPrompt == [question |-> "missing", responses |-> <<>>]

\* judgeService.judgeResponses(question, responses) up to its first await
EnterService(via, question, responses) ==
    /\ jentered' = TRUE
    /\ jreq' = [via |-> via, question |-> question, responses |-> responses]
    /\ IF InvalidInput(question, responses)
       THEN /\ jresult' = OuterCatch(ErrorWith(<<"I", "n", "v", "a", "l", "i", "d", " ", "i",
                                          "n", "p", "u", "t", ":", " ", "q", "u", "e", "s",
                                          "t", "i", "o", "n", " ", "a", "n", "d", " ", "e",
                                          "x", "a", "c", "t", "l", "y", " ", "4", " ", "r",
                                          "e", "s", "p", "o", "n", "s", "e", "s", " ", "a",
                                          "r", "e", " ", "r", "e", "q", "u", "i", "r", "e",
                                          "d">>), responses, NoRand)
            /\ jpc' = "done"
            /\ jprompt' = NoPrompt
            /\ jlog' = <<>>
       ELSE /\ jresult' = JudgeNone
            /\ jpc' = "primary"
            /\ jprompt' = buildJudgePrompt(question, responses)
            /\ jlog' = <<TextGenerationCall(jprompt')>>
    /\ http' = IF via = "http" /\ jpc' = "done" THEN StatusFor(jresult') ELSE 0

\* judgeService.judgeResponses called by code other than the controller
JudgeDirect(question, responses) ==
    /\ jpc = "idle"
    /\ EnterService("direct", question, responses)
    /\ UNCHANGED <<hfConfigured, dvars, chat>>

\* mutant: the controller does not check the responses array
ControllerChecksQuestionOnly(question, responses) ==
    IF question /= "text" THEN 400
    ELSE IF ~hfConfigured THEN 500
    ELSE 0

\* the validation of judgeController.judgeResponses: the status it answers
\* with without calling the service (0: it calls the service)
ControllerRejects(question, responses) ==
    IF question /= "text" THEN 400
    ELSE IF responses.kind /= "array" \/ Len(responses.items) /= 4 THEN 400
    ELSE IF \E i \in 1..Len(responses.items) : ~responses.items[i].isString THEN 400
    ELSE IF ~hfConfigured THEN 500
    ELSE 0

\* POST /api/judge
JudgeHttp(question, responses) ==
    /\ jpc = "idle"
    /\ IF ControllerRejects(question, responses) /= 0
       THEN /\ http' = ControllerRejects(question, responses)
            /\ jpc' = "done"
            /\ jreq' = [via |-> "http", question |-> question, responses |-> responses]
            /\ UNCHANGED <<jentered, jresult, jprompt, jlog>>
       ELSE EnterService("http", question, responses)
    /\ UNCHANGED <<hfConfigured, dvars, chat>>

\* what the log keeps of a settled invocation
ReturnedText(text) == [task |-> "returned", text |-> text]

ThrewFault(f) == [task |-> "threw", fault |-> f]

\* the service has settled with res: the controller answers
Settle(res) ==
    /\ jresult' = res
    /\ jpc' = "done"
    /\ http' = IF jreq.via = "http" THEN StatusFor(res) ELSE 0

\* callTextGeneration returns text: it is parsed and returned
PrimaryReturns(text) ==
    /\ jpc = "primary"
    /\ Settle(JudgeSuccess(parseJudgement(text), text))
    /\ jlog' = Append(jlog, ReturnedText(text))
    /\ UNCHANGED <<jreq, jprompt, jentered, hfConfigured, dvars, chat>>

\* callTextGeneration rejects with f: the inner catch falls back to
\* callChatCompletion on a task mismatch and rethrows anything else
PrimaryThrows(f) ==
    /\ jpc = "primary"
    /\ IF IsTaskMismatch(f)
       THEN /\ jlog' = jlog \o <<ThrewFault(f), ChatCompletionCall(jprompt)>>
            /\ jpc' = "fallback"
            /\ UNCHANGED <<jresult, http>>
       ELSE /\ \E rnd \in (IF f.hasMessage /\ IsUnavailable(f.text) THEN RandVectors ELSE {NoRand}) :
                    Settle(OuterCatch(f, jreq.responses, rnd))
            /\ jlog' = Append(jlog, ThrewFault(f))
    /\ UNCHANGED <<jreq, jprompt, jentered, hfConfigured, dvars, chat>>

\* callChatCompletion returns text
FallbackReturns(text) ==
    /\ jpc = "fallback"
    /\ Settle(JudgeSuccess(parseJudgement(text), text))
    /\ jlog' = Append(jlog, ReturnedText(text))
    /\ UNCHANGED <<jreq, jprompt, jentered, hfConfigured, dvars, chat>>

\* callChatCompletion rejects with f: the outer catch
FallbackThrows(f) ==
    /\ jpc = "fallback"
    /\ \E rnd \in (IF f.hasMessage /\ IsUnavailable(f.text) THEN RandVectors ELSE {NoRand}) :
            Settle(OuterCatch(f, jreq.responses, rnd))
    /\ jlog' = Append(jlog, ThrewFault(f))
    /\ UNCHANGED <<jreq, jprompt, jentered, hfConfigured, dvars, chat>>

\* the caller has its answer; nothing of the request is kept
JudgeReturn ==
    /\ jpc = "done"
    /\ jpc' = "idle"
    /\ jreq' = NoRequest
    /\ jprompt' = NoPrompt
    /\ jlog' = <<>>
    /\ jresult' = JudgeNone
    /\ jentered' = FALSE
    /\ http' = 0
    /\ UNCHANGED <<hfConfigured, dvars, chat>>

JudgeIdle ==
    /\ jpc = "idle"
    /\ jreq = NoRequest
    /\ jprompt = NoPrompt
    /\ jlog = <<>>
    /\ jresult = JudgeNone
    /\ jentered = FALSE
    /\ http = 0

-----------------------------------------------------------------------------
(* Claims on the dispatch engine and the connection tester *)

\* positions of P whose provider has a present, non-placeholder credential
ValidIdx(P) == {i \in 1..Len(P) : P[i] \in Providers /\ apiKey[P[i]] = "valid"}

ManyReturned == op = "many" /\ result.kind = "value"

\* C1: generateMany returns one result per entry of P that has a valid
\* credential, the k-th result carrying the provider id of the k-th such entry
\* of P, whatever the order in which the calls completed.
C1_ResultsInInputOrder ==
    ManyReturned =>
        LET V == ValidIdx(requested) IN
        /\ Len(result.value) = Cardinality(V)
        /\ \A i \in V :
              result.value[Cardinality({j \in V : j <= i})].provider = requested[i]

C1_Witness ==
    /\ ManyReturned
    /\ Len(result.value) >= 2
    /\ Len(requested) > Len(result.value)
    /\ order[1] /= 1

\* the result the call c has on its own: its provider's reply, normalised
OwnOutcome(c) == generateResponseFromProvider(c.provider, c.reply).value

C2_OwnResult ==
    ManyReturned =>
        /\ Len(result.value) = Len(calls)
        /\ \A i \in 1..Len(calls) : result.value[i] = OwnOutcome(calls[i])

C2_OnlyOwnReplySettles ==
    (op = "many" /\ op' = "many") =>
        \A i \in 1..Len(calls) :
            IF calls[i].reply /= Pending
            THEN calls'[i] = calls[i]
            ELSE \/ calls'[i] = calls[i]
                 \/ /\ order' = Append(order, i)
                    /\ \A j \in 1..Len(calls) : j /= i => calls'[j] = calls[j]

\* C2: within one generateMany the result reported for a provider is the
\* outcome of its own call, normalised: a call in flight is settled only by its
\* own reply (no sibling's failure or timeout cancels or changes it), and every
\* call's result is in the returned list.
C2_SiblingIsolation == [](C2_OwnResult) /\ [][C2_OnlyOwnReplySettles]_vars

C2_Witness ==
    /\ ManyReturned
    /\ \E i, j \in 1..Len(calls) :
          /\ i /= j
          /\ order[1] = i
          /\ result.value[i].errorType = "timeout"
          /\ result.value[j].success

\* C3: generate never raises: for every provider id and every outcome of the
\* backend call, once the call has settled (or none is made) generate has
\* returned a result value for that provider.
C3_GenerateNeverRaises ==
    op = "generate" =>
        /\ result.kind /= "throw"
        /\ (calls = <<>> \/ calls[1].reply /= Pending) =>
              IF result.kind = "value"
              THEN /\ result.value.provider = requested[1]
                   /\ result.value.success \in BOOLEAN
              ELSE FALSE

C3_Witness ==
    /\ op = "generate"
    /\ result.kind = "value"
    /\ calls /= <<>>
    /\ calls[1].reply.status = 0
    /\ ~result.value.success

\* C4: when no requested provider has a valid credential, generateMany fails
\* with the no-providers error and has issued no network call.
C4_FailFastNoNetwork ==
    (op = "many" /\ ValidIdx(requested) = {}) =>
        /\ result = Thrown("No valid API keys configured for any providers")
        /\ opNet = 0
        /\ calls = <<>>

C4_Witness ==
    /\ op = "many"
    /\ Len(requested) >= 2
    /\ result.kind = "throw"
    /\ opNet = 0

HasCredential(p) == p \in Providers /\ apiKey[p] = "valid"

SettledPairs ==
    IF op = "generate" /\ result.kind = "value" /\ calls /= <<>>
    THEN {<<calls[1].reply, result.value>>}
    ELSE IF ManyReturned
         THEN {<<calls[i].reply, result.value[i]>> : i \in 1..Len(calls)}
         ELSE {}

\* the results generate or generateMany returned
AllResults ==
    IF op = "generate" /\ result.kind = "value"
    THEN {result.value}
    ELSE IF ManyReturned
         THEN {result.value[i] : i \in 1..Len(result.value)}
         ELSE {}

\* the errorType the claims give for an HTTP status
ClaimedKind(status) ==
    CASE status = 401 -> "auth_error"
      [] status = 429 -> "rate_limit"
      [] status = 400 -> "bad_request"
      [] status = 403 -> "permission_denied"
      [] status \in 500..599 -> "service_error"
      [] OTHER -> "api_error"

\* C12: a backend call of generate that fails with HTTP status 401, 429, 400 or
\* 500 returns a Failure of kind auth_error, rate_limit, bad_request,
\* service_error respectively.
C12_StatusClassified ==
    \A pr \in SettledPairs :
        pr[1].status \in {401, 429, 400, 500} =>
            /\ ~pr[2].success
            /\ pr[2].errorType = ClaimedKind(pr[1].status)

C12_Witness ==
    /\ op = "generate"
    /\ \E pr \in SettledPairs : pr[1].status = 429 /\ pr[2].errorType = "rate_limit"

\* C13 as claimed: a backend call of generate that fails with HTTP status 403
\* returns a Failure of kind permission_denied.
C13_ForbiddenIsPermissionDenied ==
    \A pr \in SettledPairs :
        pr[1].status = 403 => (~pr[2].success /\ pr[2].errorType = "permission_denied")

\* C13, amended: a backend call of generate that fails with HTTP status 403
\* returns a Failure of kind api_error, its message naming the provider.
C13_ForbiddenIsApiError ==
    \A pr \in SettledPairs :
        pr[1].status = 403 =>
            /\ ~pr[2].success
            /\ pr[2].errorType = "api_error"
            /\ pr[2].error[1] = ProviderName(pr[2].provider)

C13_Witness ==
    \E pr \in SettledPairs : pr[1].status = 403 /\ pr[2].errorType = "api_error"

\* C14 as claimed: a backend call of generate that fails with any HTTP status
\* from 500 to 599 returns a Failure of kind service_error.
C14_Any5xxIsServiceError ==
    \A pr \in SettledPairs :
        pr[1].status \in 500..599 => (~pr[2].success /\ pr[2].errorType = "service_error")

\* C14, amended: a backend call of generate that fails with HTTP status 500,
\* 502 or 503 returns a Failure of kind service_error; with any other status
\* from 500 to 599 (501, 504) it returns a Failure of kind api_error.
C14_ListedServiceErrors ==
    \A pr \in SettledPairs :
        pr[1].status \in 500..599 =>
            /\ ~pr[2].success
            /\ pr[2].errorType =
                  IF pr[1].status \in {500, 502, 503} THEN "service_error" ELSE "api_error"

C14_Witness ==
    /\ \E pr \in SettledPairs : pr[1].status = 503 /\ pr[2].errorType = "service_error"
    /\ op = "generate"

\* the timeout of the request config is the caller's when the settings carry
\* one, DEFAULT_SETTINGS.timeout otherwise
C15_TimeoutOfSettings ==
    \A settings \in SettingsGiven :
        (/\ op = "idle"
         /\ \/ op' = "many" /\ GenerateManyStart(requested', settings)
            \/ op' = "generate" /\ GenerateStart(requested'[1], settings)) =>
            \A i \in 1..Len(calls') :
                calls'[i].timeout =
                    IF "timeout" \in DOMAIN settings THEN settings.timeout ELSE 30000

\* the expiry of a call's timeout settles that call and leaves every other call
\* of the operation as it was, in flight or settled
C15_ExpiryEndsOwnCallOnly ==
    \A i \in 1..Len(calls) :
        (/\ op \in {"generate", "many"}
         /\ op' = op
         /\ calls[i].reply = Pending
         /\ calls'[i].reply.code = "ECONNABORTED") =>
            \A j \in 1..Len(calls) : j /= i => calls'[j] = calls[j]

\* a result is a Failure of kind timeout exactly when its own call expired
C15_TimeoutIsOwn ==
    \A pr \in SettledPairs :
        (pr[1].code = "ECONNABORTED") <=> (~pr[2].success /\ pr[2].errorType = "timeout")

\* C15: each call of generate carries its own timeout, 30000 ms unless the
\* settings give another; when it expires that call, and only that call, ends
\* with a Failure of kind timeout, and no sibling call of the same generateMany
\* is cancelled or changed.
C15_OwnTimeoutOnly ==
    /\ [](C15_TimeoutIsOwn)
    /\ [][C15_TimeoutOfSettings /\ C15_ExpiryEndsOwnCallOnly]_vars

C15_Witness ==
    /\ ManyReturned
    /\ \E i, j \in 1..Len(calls) :
          /\ i /= j
          /\ order[1] = i
          /\ calls[i].reply.code = "ECONNABORTED"
          /\ calls[i].timeout = 5000
          /\ result.value[i].errorType = "timeout"
          /\ calls[j].reply.status = 200
          /\ result.value[j].success

\* C16 as claimed: a backend call of generate that fails with no HTTP response
\* because the host is unreachable (ENOTFOUND, ECONNREFUSED) returns a Failure
\* of kind network_error.
C16_UnreachableIsNetworkError ==
    \A pr \in SettledPairs :
        (pr[1].status = 0 /\ pr[1].code \in {"ENOTFOUND", "ECONNREFUSED"}) =>
            (~pr[2].success /\ pr[2].errorType = "network_error")

\* the error kinds of the dispatch engine's taxonomy, as errorType values
Taxonomy ==
    {"auth_error", "rate_limit", "bad_request", "permission_denied", "service_error",
     "api_error", "timeout", "network_error", "empty_response", "no_providers_available",
     "unknown_provider"}

\* C17 as claimed: the kind of every Failure returned by generate or
\* generateMany is a member of the taxonomy.
C17_KindInTaxonomy ==
    \A v \in AllResults : ~v.success => v.errorType \in Taxonomy

\* C18 as claimed: a 2xx reply whose content is empty or missing makes generate
\* return a Failure of kind empty_response, and no Success has empty content.
C18_EmptyReplyIsEmptyResponse ==
    \A pr \in SettledPairs :
        /\ (pr[1].status = 200 /\ pr[1].content = ContentNone) =>
              (~pr[2].success /\ pr[2].errorType = "empty_response")
        /\ pr[2].success => pr[2].content /= <<>>

\* C19 as claimed: every result returned by generate or generateMany is either
\* a Success with non-empty content and no error fields or a Failure with an
\* error kind and message and no content, and its provider is an entry of the
\* registry.
C19_OneVariantRegisteredProvider ==
    \A v \in AllResults :
        /\ v.provider \in Providers
        /\ IF v.success
           THEN v.content /= Absent /\ v.content /= <<>>
                /\ v.errorType = "absent" /\ v.error = Absent
           ELSE v.errorType /= "absent" /\ v.error /= Absent /\ v.content = Absent

\* testAll has answered with an entry for every provider of the registry, and
\* the entry is not_configured exactly for the providers without a credential
C20_EntryPerProvider ==
    (op = "test" /\ result.kind = "value") =>
        /\ DOMAIN result.value = Providers
        /\ \A p \in Providers :
              /\ result.value[p].status \in {"not_configured", "connected", "error"}
              /\ (result.value[p].status = "not_configured") <=> ~HasCredential(p)

\* the entry written for a probed provider is connected exactly when the probe
\* returned a Success with non-empty content, and error otherwise
C20_ConnectedIffProbeAnswered ==
    /\ \A r \in Replies :
          (op = "test" /\ ProbeReply(r)) =>
              LET p == calls[1].provider
                  v == generateResponseFromProvider(p, r).value
              IN  result'.value[p].status =
                    IF v.success /\ v.content /= <<>> THEN "connected" ELSE "error"
    /\ (op = "test" /\ ProbeTimer) => result'.value[calls[1].provider].status = "error"

\* C20 as claimed: testAll reports exactly one entry for every provider:
\* not_configured if and only if the provider lacks a valid credential,
\* connected if and only if it is configured and its probe returned a success
\* with non-empty content, error otherwise.
C20_TestAllEntries ==
    [](C20_EntryPerProvider) /\ [][C20_ConnectedIffProbeAnswered]_vars

\* when the 10 s timer of a probe expires, that provider alone gets a timeout
\* entry
C21_TimerEntryOnly ==
    (op = "test" /\ ProbeTimer) =>
        LET p == calls[1].provider
        IN  /\ result'.value[p] = TimerEntry
            /\ \A q \in Providers \ {p} :
                  result.value[q].status /= "none" => result'.value[q] = result.value[q]

\* no probe call whose timer expired is still in flight, neither while a later
\* provider is probed nor once testAll has returned
C21_NoProbeLeftInFlight == op = "test" => orphans = {}

\* C21 as claimed: in testAll, when the 10 s timeout of a probe expires that
\* provider alone is reported as a timeout error and the probe's outbound call
\* is terminated: no probe call is in flight when the next probe starts or
\* when testAll returns.
C21_ProbeTimeoutTerminates ==
    [](C21_NoProbeLeftInFlight) /\ [][C21_TimerEntryOnly]_vars

\* the report getProviderStatus owes for the credentials in force
C22_Report ==
    [p \in Providers |->
        [name |-> ProviderName(p),
         configured |-> IF HasCredential(p) THEN "true"
                        ELSE IF apiKey[p] = "unset" THEN "undefined" ELSE "false",
         models |-> Models(p), defaultModel |-> DefaultModel(p)]]

\* C22: statusReport issues no network call and leaves no state behind; it
\* reports configured = true for a provider exactly when the provider's
\* credential is valid, and its report is the one the credentials in force
\* determine (provider keys, configured flags, models, default model), so two
\* consecutive calls under the same configuration return identical reports.
C22_StatusReportPure ==
    op = "status" =>
        /\ opNet = 0 /\ calls = <<>> /\ contacted = {} /\ orphans = {}
        /\ requested = <<>> /\ order = <<>> /\ tIdx = 0
        /\ result.kind = "value"
        /\ DOMAIN result.value = Providers
        /\ \A p \in Providers : (result.value[p].configured = "true") <=> HasCredential(p)
        /\ result.value = C22_Report

C22_Witness ==
    /\ op = "status"
    /\ \E p, q \in Providers :
          /\ result.value[p].configured = "true"
          /\ apiKey[q] = "placeholder" /\ result.value[q].configured /= "true"

-----------------------------------------------------------------------------

(* Claims on the chat controller *)

\* how many events of one type were emitted for each provider
C26_Emitted(type) ==
    LET at == {k \in 1..Len(chat.events) : chat.events[k].type = type}
    IN  [p \in ProviderIds |-> Cardinality({k \in at : chat.events[k].provider = p})]

\* C26: every element of the list generateMultiProviderResponses returns, a
\* success or a failure, satisfies the Message.multiResponses sub-schema
\* (content and model present, errorType within the enum), so that whenever
\* the call returns, sendMultiLLMMessage persists the assistant message and
\* emits one llm_response per returned result, and a provider's failure never
\* causes the successful responses of the others to be discarded.
C26_ResultsPersisted ==
    (chat.pc = "done" /\ chat.returned.kind = "value") =>
        LET rs == chat.returned.value IN
        /\ \A i \in 1..Len(rs) :
              /\ rs[i].content /= Absent
              /\ rs[i].model /= "absent"
              /\ rs[i].errorType \in MessageErrorTypes \cup {"absent"}
        /\ chat.assistant = "saved"
        /\ chat.saved = rs
        /\ \A p \in ProviderIds :
              C26_Emitted("llm_response")[p] = Cardinality({i \in 1..Len(rs) : rs[i].provider = p})
        /\ \A i \in 1..Len(rs) :
              rs[i].success => \E j \in 1..Len(chat.saved) : chat.saved[j] = rs[i]

\* C27: every provider for which sendMultiLLMMessage emitted llm_thinking is
\* followed, by the time the request completes, by an llm_response or an
\* llm_error for that provider, requested providers without a valid
\* credential included: none is left generating.
C27_ThinkingAnswered ==
    chat.pc = "done" =>
        \A k \in 1..Len(chat.events) :
            chat.events[k].type = "llm_thinking" =>
                \E l \in (k + 1)..Len(chat.events) :
                    /\ chat.events[l].type \in {"llm_response", "llm_error"}
                    /\ chat.events[l].provider = chat.events[k].provider

-----------------------------------------------------------------------------

(* Claims on the single-backend services *)

\* call i of the role-play fan-out got a usable completion
C29_Succeeded(i) ==
    /\ apiKey["gemini"] /= "unset"
    /\ calls[i].reply.status = 200
    /\ calls[i].reply.content /= <<>>

\* call i of the role-play fan-out has failed
C29_Failed(i) == calls[i].reply /= Pending /\ ~C29_Succeeded(i)

C29_Reasons ==
    {<<"Gemini API key not configured">>, <<"No response generated from Gemini API">>}
    \cup {<<"Request failed", r.code>> : r \in Replies}

\* C29: in the role-play variant generateMultiProviderResponses calls the
\* backend for every requested provider id, whatever the credential of that
\* id, and is all-or-nothing: if every call succeeds it returns one result per
\* requested id in input order; if any call fails the whole call rejects, and
\* what the caller gets is the reason of a failure, no result of a sibling.
C29_AllOrNothing ==
    op = "rpmany" =>
        LET n == Len(requested) IN
        /\ Len(calls) = n
        /\ \A i \in 1..n : calls[i].provider = requested[i]
        /\ apiKey["gemini"] /= "unset" =>
              (opNet = n /\ contacted = {requested[i] : i \in 1..n})
        /\ (\A i \in 1..n : C29_Succeeded(i)) <=> result.kind = "value"
        /\ (\E i \in 1..n : C29_Failed(i)) <=> result.kind = "throw"
        /\ result.kind = "value" =>
              /\ Len(result.value) = n
              /\ \A i \in 1..n : /\ result.value[i].provider = requested[i]
                                  /\ result.value[i].success
                                  /\ result.value[i].content = trim(calls[i].reply.content)
        /\ result.kind = "throw" => result.value \in C29_Reasons

\* the call has rejected although a sibling succeeded, one of the requested
\* ids being a provider without a credential of its own
C29_Witness ==
    /\ op = "rpmany"
    /\ result.kind = "throw"
    /\ \E i, j \in 1..Len(calls) :
          /\ C29_Succeeded(i) /\ C29_Failed(j)
          /\ calls[i].provider = "openai" /\ apiKey["openai"] = "unset"

\* something failed inside generateAIResponse: the key is missing, or the
\* backend's reply is an HTTP or transport fault or carries no text
C30_Failed ==
    \/ apiKey["gemini"] = "unset"
    \/ /\ calls /= <<>>
       /\ calls[1].reply /= Pending
       /\ ~(calls[1].reply.status = 200 /\ calls[1].reply.content /= <<>>)

\* C30: generateAIResponse never rejects: on any failure inside it (missing
\* API key, HTTP or transport fault, empty reply) it returns the fallback
\* response, with the apology content, zero token counts and an error field.
C30_NeverRejects ==
    op = "gemini" =>
        /\ result.kind /= "throw"
        /\ (C30_Failed /\ result.kind = "value") =>
              /\ result.value.content =
                    <<"I apologize, but I'm having trouble processing your request right now.",
                      "Please try again in a moment.">>
              /\ result.value.tokens = [prompt |-> 0, completion |-> 0, total |-> 0]
              /\ "error" \in DOMAIN result.value

-----------------------------------------------------------------------------

(* Claims on the judge and the dispatch engine running together *)

\* the result of the judge request is the one its own inputs determine: the
\* text its last invocation returned, parsed, or, when that invocation threw,
\* the mock of its own responses if the fault's message tells unavailability
\* and the failure carrying the fault's message if not
C25_JudgeOwnResult ==
    (jpc = "done" /\ jentered /\ jlog /= <<>> /\ jlog[Len(jlog)].task /= "threw") =>
        /\ jlog[Len(jlog)].task = "returned"
        /\ jresult = JudgeSuccess(parseJudgement(jlog[Len(jlog)].text), jlog[Len(jlog)].text)

C25_JudgeOwnFault ==
    (jpc = "done" /\ jentered /\ jlog /= <<>> /\ jlog[Len(jlog)].task = "threw"
     /\ jlog[Len(jlog)].fault.hasMessage) =>
        LET msg == jlog[Len(jlog)].fault.text IN
        IF includes(msg, PhraseNoProvider) \/ includes(msg, PhraseFetchFailed)
        THEN (\A i \in 1..4 : jreq.responses.items[i].isString) =>
                \E rnd \in RandVectors :
                    jresult = JudgeSuccess(generateMockJudgement(jreq.responses.items, rnd),
                                           Text(MockRawOutput))
        ELSE jresult = JudgeFailure(msg)

\* a call that has returned leaves nothing behind for the next one
C25_NothingRetained ==
    /\ jpc = "idle" => JudgeIdle
    /\ op = "idle" =>
          /\ requested = <<>> /\ calls = <<>> /\ order = <<>> /\ result = NoResult
          /\ contacted = {} /\ opNet = 0 /\ orphans = {}

\* a step of the judge does not touch the dispatch engine's state, and a step
\* of the dispatch engine does not touch the judge's
C25_Frame ==
    /\ jvars' /= jvars => dvars' = dvars
    /\ dvars' /= dvars => jvars' = jvars

-----------------------------------------------------------------------------

(* Claims on the judge *)

LogTasks == [k \in 1..Len(jlog) |-> jlog[k].task]

\* the faults of the catalogue that tell a task mismatch
MismatchFaults ==
    {ErrorWith(MsgMismatch), ErrorWith(MsgSupportedTask), ErrorWith(MsgNotSupported),
     ErrorWith(MsgTaskThen), BareString(MsgSupportedTask)}

\* C6: in one judge request the fallback (chatCompletion) invocation is made
\* if and only if the primary (textGeneration) invocation has ended with a fault
\* that matches the task-mismatch signature; it is made once, after the
\* primary's fault, with the prompt of the primary, and the text of a
\* successful fallback is the one parsed and returned.
C6_FallbackOnMismatchOnly ==
    LET fallbacks == {k \in 1..Len(jlog) : jlog[k].task = "chatCompletion"}
        primaryMismatch == /\ Len(jlog) >= 2
                           /\ jlog[1].task = "textGeneration"
                           /\ jlog[2].task = "threw"
                           /\ jlog[2].fault \in MismatchFaults
    IN  /\ Cardinality(fallbacks) <= 1
        /\ (fallbacks /= {}) <=> primaryMismatch
        /\ \A k \in fallbacks :
              /\ k = 3
              /\ jlog[k].messages[2].role = "user"
              /\ jlog[k].messages[2].content = jlog[1].inputs
        /\ (fallbacks /= {} /\ Len(jlog) = 4 /\ jlog[4].task = "returned") =>
              jresult = JudgeSuccess(parseJudgement(jlog[4].text), jlog[4].text)

C6_Witness ==
    /\ LogTasks = <<"textGeneration", "threw", "chatCompletion", "returned">>
    /\ jresult.success
    /\ jresult.judgement.ranking /= NotProvided

\* a request of a question and exactly four texts
ValidRequest ==
    /\ jreq.question = "text"
    /\ jreq.responses.kind = "array"
    /\ Len(jreq.responses.items) = 4
    /\ \A i \in 1..4 : jreq.responses.items[i].isString

\* the request ended on a fault of the primary or of the fallback invocation
EndedOnFault == jpc = "done" /\ jlog /= <<>> /\ jlog[Len(jlog)].task = "threw"

LastFault == jlog[Len(jlog)].fault

IsMockResult(res) ==
    /\ res.kind = "value"
    /\ res.success
    /\ res.rawOutput = Text(MockRawOutput)
    /\ res.judgement.fullText /= res.rawOutput

\* C7 as claimed: whatever the (non-empty) message of the fault that ended the
\* invocations of a valid request, judge returns a mock judgement.
C7_MockOnAnyFault ==
    (ValidRequest /\ EndedOnFault /\ LastFault.hasMessage /\ LastFault.text /= <<>>) =>
        IsMockResult(jresult)

\* the messages of the catalogue that tell the judge model is unavailable
UnavailableMessages == {MsgNoProvider, MsgFetchFailed}

\* C7, amended: for a valid request ended by a fault that carries a message,
\* judge returns a mock judgement when the message contains 'No Inference
\* Provider available' or 'Failed to fetch inference provider', and otherwise
\* a tagged failure carrying the message.
C7_MockOnUnavailableOnly ==
    (ValidRequest /\ EndedOnFault /\ LastFault.hasMessage) =>
        IF LastFault.text \in UnavailableMessages
        THEN IsMockResult(jresult)
        ELSE jresult = JudgeFailure(LastFault.text)

C7_Witness ==
    /\ ValidRequest
    /\ LogTasks = <<"textGeneration", "threw", "chatCompletion", "threw">>
    /\ IsMockResult(jresult)

\* C8 as claimed: judge never ends in an unhandled fault, whatever the primary
\* or the fallback invocation throws: it settles with a result object.
C8_JudgeNeverRejects == jresult.kind /= "reject"

\* the request lacks a question or does not carry exactly four responses
MalformedRequest ==
    \/ jreq.question = "missing"
    \/ jreq.responses.kind /= "array"
    \/ Len(jreq.responses.items) /= 4

\* C9: a request without a question or without exactly 4 responses is reported
\* by the evaluator as a tagged failure, with no invocation of the judge model
\* and no mock judgement; the HTTP caller answers it with 400 and does not call
\* the evaluator.
C9_MalformedRequest ==
    (jpc = "done" /\ MalformedRequest) =>
        /\ jlog = <<>>
        /\ jentered => (jresult.kind = "value" /\ ~jresult.success /\ jresult.judgement = <<>>)
        /\ jreq.via = "http" => (http = 400 /\ ~jentered /\ jresult = JudgeNone)

C9_Witness ==
    /\ jpc = "done"
    /\ jreq.via = "direct"
    /\ jreq.question = "text"
    /\ jreq.responses.kind = "array"
    /\ Len(jreq.responses.items) = 3
    /\ ~jresult.success

\* the entries of a ranking or scores string, as its readers split it
Entries(s) == Len(split(s, ","))

JudgementReturned == jresult.kind = "value" /\ jresult.success

IsTaggedMock(j) == "isMock" \in DOMAIN j /\ j.isMock = TRUE

\* the judgement came from the heuristic mock: the last invocation threw
MockPath == JudgementReturned /\ EndedOnFault

\* the judgement was parsed from text the judge model returned
GenuinePath == JudgementReturned /\ jlog /= <<>> /\ jlog[Len(jlog)].task = "returned"

\* C11 as claimed: a returned judgement is tagged isMock = true if and only if
\* it was produced by the mock path.
C11_MockIffTagged ==
    JudgementReturned => (IsTaggedMock(jresult.judgement) <=> MockPath)

\* C11, amended: a returned judgement carries no isMock field on either path;
\* the mock path is told from the returned value by its rawOutput, the fixed
\* marker 'Mock response - HF API unavailable', which differs from the
\* judgement's fullText, whereas a judgement parsed from the judge model's
\* text has a fullText equal to the rawOutput.
C11_MockToldByRawOutput ==
    JudgementReturned =>
        /\ "isMock" \notin DOMAIN jresult.judgement
        /\ MockPath \/ GenuinePath
        /\ MockPath =>
              /\ jresult.rawOutput = Text(MockRawOutput)
              /\ jresult.judgement.fullText /= jresult.rawOutput
        /\ GenuinePath =>
              /\ jresult.rawOutput = jlog[Len(jlog)].text
              /\ jresult.judgement.fullText = jresult.rawOutput

C11_Witness ==
    /\ MockPath
    /\ LogTasks = <<"textGeneration", "threw">>
    /\ ~IsTaggedMock(jresult.judgement)

\* the non-empty trimmed lines of a raw text
C23_Lines(t) ==
    LET parts == split(t, "\n")
    IN  NonEmpty([k \in 1..Len(parts) |-> trim(parts[k])])

\* the lines that carry a label, whatever the case of their letters
C23_Labelled(lines, label) ==
    {i \in 1..Len(lines) : startsWith(toUpperCase(lines[i]), label)}

C23_Min(S) == CHOOSE i \in S : \A j \in S : i <= j

C23_Max(S) == CHOOSE i \in S : \A j \in S : j <= i

\* what follows the label on a line
C23_Value(line, label) == trim(substring(line, Len(label)))

\* everything from line i to the end of the text, the label left out
C23_Rest(lines, i) ==
    trim(substring(join(SubSeq(lines, i, Len(lines)), <<" ">>), Len(LabelReasoning)))

\* the judge model answered and judgeResponses has settled
C23_Parsed ==
    jresult.kind /= "none" /\ jlog /= <<>> /\ jlog[Len(jlog)].task = "returned"

\* C23 as claimed: parseJudgement never raises, and for every raw text each of
\* ranking, scores and reasoning without a labelled line is the 'Not provided'
\* marker, while each with a labelled line holds the value extracted from such
\* a line, reasoning being everything from its line to the end of the text.
C23_DefaultsNotProvided ==
    C23_Parsed =>
        /\ JudgementReturned
        /\ jresult.rawOutput.isString =>
              LET lines == C23_Lines(jresult.rawOutput.chars)
                  j == jresult.judgement
                  rk == C23_Labelled(lines, LabelRanking)
                  sc == C23_Labelled(lines, LabelScores)
                  rs == C23_Labelled(lines, LabelReasoning)
              IN  /\ IF rk = {} THEN j.ranking = NotProvided
                     ELSE \E i \in rk : j.ranking = C23_Value(lines[i], LabelRanking)
                  /\ IF sc = {} THEN j.scores = NotProvided
                     ELSE \E i \in sc : j.scores = C23_Value(lines[i], LabelScores)
                  /\ IF rs = {} THEN j.reasoning = NotProvided
                     ELSE j.reasoning = C23_Rest(lines, C23_Min(rs))

\* C23, amended: parseJudgement never raises. Of a raw text that is a string,
\* the scan ends at the first REASONING: line: ranking and scores are each the
\* value of the last line so labelled before that line, or 'Not provided' when
\* there is none or its value is empty; reasoning is everything from the first
\* REASONING: line to the end of the text (the non-empty trimmed lines joined
\* by spaces), or 'No reasoning provided' when there is no such line or
\* nothing follows the label; each field is settled independently of the
\* others. Of a raw value that is no string, ranking and scores are 'Parse
\* error' and reasoning is 'Failed to parse model response'.
C23_DefaultsPerField ==
    C23_Parsed =>
        /\ JudgementReturned
        /\ LET j == jresult.judgement IN
           IF ~jresult.rawOutput.isString
           THEN j.ranking = ParseError /\ j.scores = ParseError /\ j.reasoning = ParseFailed
           ELSE LET lines == C23_Lines(jresult.rawOutput.chars)
                    rs == C23_Labelled(lines, LabelReasoning)
                    stop == IF rs = {} THEN Len(lines) + 1 ELSE C23_Min(rs)
                    rk == {i \in C23_Labelled(lines, LabelRanking) : i < stop}
                    sc == {i \in C23_Labelled(lines, LabelScores) : i < stop}
                    orMarker(S, label) ==
                        IF S = {} \/ C23_Value(lines[C23_Max(S)], label) = <<>>
                        THEN NotProvided
                        ELSE C23_Value(lines[C23_Max(S)], label)
                IN  /\ j.ranking = orMarker(rk, LabelRanking)
                    /\ j.scores = orMarker(sc, LabelScores)
                    /\ j.reasoning = IF rs = {} \/ C23_Rest(lines, stop) = <<>>
                                     THEN NoReasoning
                                     ELSE C23_Rest(lines, stop)

C23_Witness ==
    /\ C23_Parsed
    /\ jresult.rawOutput = Text(TextReasoningFirst)
    /\ jresult.judgement.ranking = NotProvided
    /\ jresult.judgement.scores = NotProvided
    /\ jresult.judgement.reasoning \notin {NoReasoning, NotProvided}

\* the entries of a comma-separated list, trimmed
C24_Items(s) ==
    LET parts == split(s, ",")
    IN  [k \in 1..Len(parts) |-> trim(parts[k])]

\* C24: a mock judgement has the shape of a genuine one: for the 4 responses of
\* the request and whatever the random perturbation, its ranking names each of
\* the four responses exactly once, its scores are four numbers within 0..10,
\* and parsing the mock's text (the judgement's fullText) yields back exactly
\* the mock's ranking and scores.
C24_MockShape ==
    MockPath =>
        LET j == jresult.judgement
            rk == C24_Items(j.ranking)
            sc == C24_Items(j.scores)
        IN  /\ Len(rk) = 4
            /\ {rk[k] : k \in 1..Len(rk)} = {NumberToString(n) : n \in 1..4}
            /\ Len(sc) = 4
            /\ \A k \in 1..Len(sc) : sc[k] \in {NumberToString(n) : n \in 0..10}
            /\ j.fullText.isString
            /\ parseJudgement(j.fullText).ranking = j.ranking
            /\ parseJudgement(j.fullText).scores = j.scores

C24_Witness ==
    /\ MockPath
    /\ C24_Items(jresult.judgement.ranking)[1] /= <<"1">>
    /\ parseJudgement(jresult.judgement.fullText).ranking = jresult.judgement.ranking
    /\ \E k \in 1..4 : C24_Items(jresult.judgement.scores)[k] = <<"1", "0">>

\* the number a decimal string of the mock stands for
C28_Number(s) == CHOOSE n \in 0..99 : NumberToString(n) = s

\* C28: in a mock judgement the scores agree with the ranking: every reported
\* score is an integer between 1 and 10, and along the ranking the score of
\* each response is greater than or equal to the score of the next one,
\* whatever the random perturbation.
C28_ScoresFollowRanking ==
    MockPath =>
        LET rk == C24_Items(jresult.judgement.ranking)
            sc == C24_Items(jresult.judgement.scores)
            scoreAt(k) == C28_Number(sc[C28_Number(rk[k])])
        IN  /\ \A i \in 1..Len(sc) : \E n \in 1..10 : sc[i] = NumberToString(n)
            /\ \A k \in 1..(Len(rk) - 1) : scoreAt(k) >= scoreAt(k + 1)

\* a mock whose ranking departs from the order of the request, with scores
\* that differ and scores that rounding made equal
C28_Witness ==
    /\ MockPath
    /\ LET rk == C24_Items(jresult.judgement.ranking)
           sc == C24_Items(jresult.judgement.scores)
       IN  /\ C28_Number(rk[1]) > C28_Number(rk[2])
           /\ sc[C28_Number(rk[1])] /= sc[C28_Number(rk[4])]
           /\ \E k \in 1..3 : sc[C28_Number(rk[k])] = sc[C28_Number(rk[k + 1])]

-----------------------------------------------------------------------------

Init ==
    /\ apiKey \in [Providers -> KeyKinds]
    /\ op = "idle"
    /\ requested = <<>>
    /\ calls = <<>>
    /\ order = <<>>
    /\ result = NoResult
    /\ contacted = {}
    /\ opNet = 0
    /\ tIdx = 0
    /\ orphans = {}
    /\ hfConfigured = TRUE
    /\ JudgeIdle
    /\ chat = ChatIdle

Next ==
    \/ \E p \in ProviderIds, settings \in SettingsGiven : GenerateStart(p, settings)
    \/ \E P \in RequestLists, settings \in SettingsGiven : GenerateManyStart(P, settings)
    \/ \E r \in Replies : Complete(1, r) /\ op = "generate"
    \/ \E i \in 1..Len(calls), r \in FanoutReplies : Complete(i, r) /\ op = "many"
    \/ TestAllStart
    \/ \E r \in Replies : ProbeReply(r)
    \/ ProbeTimer
    \/ \E p \in Providers : OrphanSettles(p)
    \/ StatusReport
    \/ Return

Spec == Init /\ [][Next]_vars

\* the judge on its own: the dispatch engine is idle and no key matters
InitJudge ==
    /\ apiKey = [p \in Providers |-> "unset"]
    /\ op = "idle"
    /\ requested = <<>>
    /\ calls = <<>>
    /\ order = <<>>
    /\ result = NoResult
    /\ contacted = {}
    /\ opNet = 0
    /\ tIdx = 0
    /\ orphans = {}
    /\ hfConfigured \in BOOLEAN
    /\ JudgeIdle
    /\ chat = ChatIdle

NextJudge ==
    \/ \E q \in Questions, rs \in JudgeResponses : JudgeDirect(q, rs)
    \/ \E q \in Questions, rs \in JudgeResponses : JudgeHttp(q, rs)
    \/ \E t \in (JudgeTexts \cup {NoText}) : PrimaryReturns(t)
    \/ \E f \in Faults : PrimaryThrows(f)
    \/ \E t \in JudgeTexts : FallbackReturns(t)
    \/ \E f \in Faults : FallbackThrows(f)
    \/ JudgeReturn

SpecJudge == InitJudge /\ [][NextJudge]_vars

\* the single-backend services on their own: only the Gemini key is read
InitGemini ==
    /\ apiKey \in {k \in [Providers -> KeyKinds] : \A p \in Providers \ {"gemini"} : k[p] = "unset"}
    /\ op = "idle"
    /\ requested = <<>>
    /\ calls = <<>>
    /\ order = <<>>
    /\ result = NoResult
    /\ contacted = {}
    /\ opNet = 0
    /\ tIdx = 0
    /\ orphans = {}
    /\ hfConfigured = TRUE
    /\ JudgeIdle
    /\ chat = ChatIdle

NextGemini ==
    \/ \E P \in RequestLists : RolePlayManyStart(P)
    \/ \E i \in 1..Len(calls), r \in FanoutReplies : RolePlayComplete(i, r)
    \/ \E settings \in SettingsGiven : GeminiStart(settings)
    \/ \E r \in Replies : GeminiComplete(r)
    \/ Return

SpecGemini == InitGemini /\ [][NextGemini]_vars

NextChat ==
    \/ \E found \in BOOLEAN, providers \in RequestLists, settings \in SettingsGiven :
            SendMultiStart(found, providers, settings)
    \/ \E i \in 1..Len(calls), r \in FanoutReplies : Complete(i, r) /\ op = "many"
    \/ SendMultiFinish
    \/ SendMultiRespond

SpecChat == Init /\ [][NextChat]_vars

\* a fan-out of the dispatch engine and a judge request, interleaved
InitBoth ==
    /\ apiKey \in {[p \in Providers |-> "valid"],
                   [p \in Providers |-> IF p = "gemini" THEN "valid" ELSE "unset"]}
    /\ op = "idle"
    /\ requested = <<>>
    /\ calls = <<>>
    /\ order = <<>>
    /\ result = NoResult
    /\ contacted = {}
    /\ opNet = 0
    /\ tIdx = 0
    /\ orphans = {}
    /\ hfConfigured = TRUE
    /\ JudgeIdle
    /\ chat = ChatIdle

NextBoth ==
    \/ \E P \in {Q \in RequestLists : Len(Q) = 2 /\ Q[1] = "gemini"} :
            GenerateManyStart(P, [maxTokens |-> 500])
    \/ \E i \in 1..Len(calls), r \in FanoutReplies : Complete(i, r) /\ op = "many"
    \/ Return
    \/ \E rs \in {ArrayOf([i \in 1..4 |-> Response(1, FALSE, FALSE)]),
                   ArrayOf([i \in 1..4 |-> IF i = 3 THEN Response(12, TRUE, TRUE)
                                           ELSE Response(1, FALSE, FALSE)])} :
            JudgeDirect("text", rs)
    \/ PrimaryReturns(Text(TextFull))
    \/ \E f \in {ErrorWith(MsgMismatch), ErrorWith(MsgNoProvider), ErrorWith(MsgRateLimit)} :
            PrimaryThrows(f)
    \/ \E t \in {Text(TextFull), Text(TextProse)} : FallbackReturns(t)
    \/ \E f \in {ErrorWith(MsgFetchFailed), ErrorWith(MsgRateLimit)} : FallbackThrows(f)
    \/ JudgeReturn

SpecBoth == InitBoth /\ [][NextBoth]_vars

====
